---- MODULE Spec2Model ----
(***************************************************************************)
(* compress-to-url: the URL-safe compressed payload codec of src/index.ts. *)
(*                                                                         *)
(* Representation.  A byte buffer (Uint8Array) is a sequence of numbers in *)
(* 0..255.  A string is the sequence of its Unicode code points; only      *)
(* well-formed strings (no lone surrogates) are drawn as inputs.  The      *)
(* BigInt accumulator of the radix codec is represented by its low         *)
(* bufferBits bits: the code only ever reads those bits again (every read  *)
(* is masked with 0x1f / 0xff at or below bit bufferBits), and additions   *)
(* carry upwards only.                                                     *)
(*                                                                         *)
(* src/index.ts holds two revisions of the module.  The model follows the  *)
(* second one (lines 199-390: 88-character alphabet, byte-level framing),  *)
(* which is the one the test suite exercises; the first revision's         *)
(* alphabet and text-level framing appear as the named variants            *)
(* alphabetV1 and frameText.                                               *)
(***************************************************************************)
EXTENDS Integers, Sequences, FiniteSets, TLC

(***************************************************************************)
(* Bounds of the model.                                                    *)
(***************************************************************************)
MaxTextLen == 2

MaxBinLen == 2

MaxCalls == 2

(***************************************************************************)
(* Characters and bytes that matter to the code.                           *)
(***************************************************************************)
Colon == 58

Tilde == 126

Space == 32

ReplacementChar == 65533

(* /\s/ and String.prototype.trim: WhiteSpace and LineTerminator code points *)
WhiteSpace ==
  {9, 10, 11, 12, 13, 32, 160, 5760, 8232, 8233, 8239, 8287, 12288, 65279}
    \cup (8192..8202)

(***************************************************************************)
(* The alphabet (index.ts line 229), as code points.  Index i of the       *)
(* JavaScript string is element i+1 of the sequence.                       *)
(***************************************************************************)
alphabetV1 ==
  << 48, 49, 50, 51, 52, 53, 54, 55, 56, 57, 65, 66, 67, 68, 69, 70, 71, 72, 73,
     74, 75, 76, 77, 78, 79, 80, 81, 82, 83, 84, 85, 86, 87, 88, 89, 90, 97, 98,
     99, 100, 101, 102, 103, 104, 105, 106, 107, 108, 109, 110, 111, 112, 113,
     114, 115, 116, 117, 118, 119, 120, 121, 122, 33, 35, 36, 37, 38, 40, 41, 42,
     43, 45, 59, 60, 61, 62, 63, 64, 94, 95, 96, 123, 124, 125, 126 >>

(* the alphabet with V and ~ exchanged: the filler character has index 31 *)
alphabetTildeLow ==
  << 48, 49, 50, 51, 52, 53, 54, 55, 56, 57, 65, 66, 67, 68, 69, 70, 71, 72, 73,
     74, 75, 76, 77, 78, 79, 80, 81, 82, 83, 84, 85, 126, 87, 88, 89, 90, 97, 98,
     99, 100, 101, 102, 103, 104, 105, 106, 107, 108, 109, 110, 111, 112, 113,
     114, 115, 116, 117, 118, 119, 120, 121, 122, 33, 40, 41, 42, 43, 45, 59, 60,
     61, 62, 63, 64, 94, 95, 96, 123, 124, 125, 86, 39, 44, 58, 47, 34, 91, 93 >>

alphabet ==
  << 48, 49, 50, 51, 52, 53, 54, 55, 56, 57, 65, 66, 67, 68, 69, 70, 71, 72, 73,
     74, 75, 76, 77, 78, 79, 80, 81, 82, 83, 84, 85, 86, 87, 88, 89, 90, 97, 98,
     99, 100, 101, 102, 103, 104, 105, 106, 107, 108, 109, 110, 111, 112, 113,
     114, 115, 116, 117, 118, 119, 120, 121, 122, 33, 40, 41, 42, 43, 45, 59, 60,
     61, 62, 63, 64, 94, 95, 96, 123, 124, 125, 126, 39, 44, 58, 47, 34, 91, 93 >>

(* alphabet.indexOf(char): the 0-based index of the first occurrence, or -1 *)
indexOf(seq, x) ==
  IF \E i \in 1..Len(seq) : seq[i] = x
  THEN (CHOOSE i \in 1..Len(seq) : seq[i] = x /\ \A j \in 1..(i - 1) : seq[j] # x) - 1
  ELSE -1

(* '~'.repeat(n) *)
repeat(ch, n) == [i \in 1..n |-> ch]

(***************************************************************************)
(* TextEncoder.encode: UTF-8 of a sequence of scalar values.               *)
(***************************************************************************)
Utf8OfCodePoint(cp) ==
  IF cp < 128 THEN <<cp>>
  ELSE IF cp < 2048 THEN <<192 + (cp \div 64), 128 + (cp % 64)>>
  ELSE IF cp < 65536
    THEN <<224 + (cp \div 4096), 128 + ((cp \div 64) % 64), 128 + (cp % 64)>>
  ELSE <<240 + (cp \div 262144), 128 + ((cp \div 4096) % 64),
         128 + ((cp \div 64) % 64), 128 + (cp % 64)>>

appendUtf8(bytes, cp) == bytes \o Utf8OfCodePoint(cp)

(* the encoder loop: appendUtf8 over seq[lo..hi], left to right.  The range is
   halved only to keep the evaluation shallow, and the state after the left
   half is bound as a value before the right half runs. *)
RECURSIVE encodeInto(_, _, _, _)
encodeInto(seq, lo, hi, st) ==
  IF lo > hi THEN st
  ELSE IF lo = hi THEN appendUtf8(st, seq[lo])
  ELSE LET mid == (lo + hi) \div 2
       IN CHOOSE after \in { encodeInto(seq, mid + 1, hi, left) :
                                left \in { encodeInto(seq, lo, mid, st) } } : TRUE

TextEncode(str) == encodeInto(str, 1, Len(str), <<>>)

(***************************************************************************)
(* TextDecoder.decode (utf-8, fatal = false, ignoreBOM = false): the       *)
(* decoder of the Encoding Standard.  Ill-formed input yields U+FFFD, and  *)
(* a leading byte order mark is removed from the output.                   *)
(***************************************************************************)
Utf8Start(out) ==
  [needed |-> 0, seen |-> 0, cp |-> 0, lower |-> 128, upper |-> 191, out |-> out]

(* a byte read while no sequence is open *)
Utf8Lead(out, b) ==
  IF b <= 127 THEN Utf8Start(out \o <<b>>)
  ELSE IF b >= 194 /\ b <= 223
    THEN [needed |-> 1, seen |-> 0, cp |-> b % 32, lower |-> 128, upper |-> 191,
          out |-> out]
  ELSE IF b >= 224 /\ b <= 239
    THEN [needed |-> 2, seen |-> 0, cp |-> b % 16,
          lower |-> IF b = 224 THEN 160 ELSE 128,
          upper |-> IF b = 237 THEN 159 ELSE 191, out |-> out]
  ELSE IF b >= 240 /\ b <= 244
    THEN [needed |-> 3, seen |-> 0, cp |-> b % 8,
          lower |-> IF b = 240 THEN 144 ELSE 128,
          upper |-> IF b = 244 THEN 143 ELSE 191, out |-> out]
  ELSE Utf8Start(out \o <<ReplacementChar>>)

(* one byte through the decoder; a byte that cannot continue the open      *)
(* sequence ends it with U+FFFD and is read again as a lead byte           *)
Utf8Step(st, b) ==
  IF st.needed = 0 THEN Utf8Lead(st.out, b)
  ELSE IF b < st.lower \/ b > st.upper THEN Utf8Lead(st.out \o <<ReplacementChar>>, b)
  ELSE IF st.seen + 1 = st.needed THEN Utf8Start(st.out \o <<st.cp * 64 + (b % 64)>>)
  ELSE [needed |-> st.needed, seen |-> st.seen + 1, cp |-> st.cp * 64 + (b % 64),
        lower |-> 128, upper |-> 191, out |-> st.out]

(* the decoder loop: Utf8Step over seq[lo..hi], left to right.  The range is
   halved only to keep the evaluation shallow, and the state after the left
   half is bound as a value before the right half runs. *)
RECURSIVE decodeInto(_, _, _, _)
decodeInto(seq, lo, hi, st) ==
  IF lo > hi THEN st
  ELSE IF lo = hi THEN Utf8Step(st, seq[lo])
  ELSE LET mid == (lo + hi) \div 2
       IN CHOOSE after \in { decodeInto(seq, mid + 1, hi, left) :
                                left \in { decodeInto(seq, lo, mid, st) } } : TRUE

Utf8Decode(bytes) ==
  LET st == decodeInto(bytes, 1, Len(bytes), Utf8Start(<<>>))
  IN IF st.needed # 0 THEN st.out \o <<ReplacementChar>> ELSE st.out

TextDecode(bytes) ==
  LET out == Utf8Decode(bytes) IN
  IF Len(bytes) >= 3 /\ SubSeq(bytes, 1, 3) = <<239, 187, 191>> THEN Tail(out) ELSE out

(***************************************************************************)
(* Radix codec: base85Encode (index.ts lines 231-257).                     *)
(***************************************************************************)
(* '~'.repeat(paddingNeeded), line 253 *)
fillerDot(n) == repeat(46, n)

filler(n) == repeat(Tilde, n)

(* a loop that emits the low 5 bits of the accumulator *)
RECURSIVE encodeDrainLow(_, _, _)
encodeDrainLow(buffer, bufferBits, result) ==
  IF bufferBits >= 5
  THEN encodeDrainLow(buffer \div 32, bufferBits - 5,
                      result \o <<alphabet[(buffer % 32) + 1]>>)
  ELSE [buffer |-> buffer, bufferBits |-> bufferBits, result |-> result]

(* lines 239-243: while (bufferBits >= 5) emit the top 5 unconsumed bits *)
RECURSIVE encodeDrain(_, _, _)
encodeDrain(buffer, bufferBits, result) ==
  IF bufferBits >= 5
  THEN LET bits == bufferBits - 5
           value == (buffer \div (2 ^ bits)) % 32
       IN encodeDrain(buffer % (2 ^ bits), bits, result \o <<alphabet[value + 1]>>)
  ELSE [buffer |-> buffer, bufferBits |-> bufferBits, result |-> result]

(* lines 236-244: the body of for (const byte of bytes) *)
encodeStep(st, byte) == encodeDrain(st.buffer * 256 + byte, st.bufferBits + 8, st.result)

(* for (const byte of bytes): encodeStep over seq[lo..hi], left to right.  The range is
   halved only to keep the evaluation shallow, and the state after the left
   half is bound as a value before the right half runs. *)
RECURSIVE encodeLoop(_, _, _, _)
encodeLoop(seq, lo, hi, st) ==
  IF lo > hi THEN st
  ELSE IF lo = hi THEN encodeStep(st, seq[lo])
  ELSE LET mid == (lo + hi) \div 2
       IN CHOOSE after \in { encodeLoop(seq, mid + 1, hi, left) :
                                left \in { encodeLoop(seq, lo, mid, st) } } : TRUE

(* one filler character for every bit that the final symbol pads *)
paddingOfBits(totalBytes) == (5 - ((8 * totalBytes) % 5)) % 5

(* line 252 *)
paddingNeeded(totalBytes) == IF totalBytes % 4 = 0 THEN 0 ELSE 4 - (totalBytes % 4)

(* the filler run appended also when no bits remain after the last byte *)
encodeFinishAlways(st, totalBytes) ==
  IF st.bufferBits > 0
  THEN LET paddingBits == 5 - st.bufferBits
           value == (st.buffer * (2 ^ paddingBits)) % 32
       IN st.result \o <<alphabet[value + 1]>> \o filler(paddingNeeded(totalBytes))
  ELSE st.result \o filler(paddingNeeded(totalBytes))

(* lines 246-256: the final symbol and the filler run, only if bits remain *)
encodeFinish(st, totalBytes) ==
  IF st.bufferBits > 0
  THEN LET paddingBits == 5 - st.bufferBits
           value == (st.buffer * (2 ^ paddingBits)) % 32
       IN st.result \o <<alphabet[value + 1]>> \o filler(paddingNeeded(totalBytes))
  ELSE st.result

base85Encode(bytes) ==
  encodeFinish(encodeLoop(bytes, 1, Len(bytes),
                  [buffer |-> 0, bufferBits |-> 0, result |-> <<>>]),
               Len(bytes))

(***************************************************************************)
(* Radix codec: base85Decode (index.ts lines 259-289).  The result is      *)
(* [ok |-> TRUE, bytes |-> ...] or, when line 270 throws, [ok |-> FALSE].  *)
(***************************************************************************)
(* str.replace(/~+$/, ''), line 264 *)
RECURSIVE trimFiller(_)
trimFiller(str) ==
  IF str # <<>> /\ str[Len(str)] = Tilde
  THEN trimFiller(SubSeq(str, 1, Len(str) - 1))
  ELSE str

(* lines 273-276: while (bufferBits >= 8) push the top 8 unconsumed bits *)
RECURSIVE decodeDrain(_, _, _)
decodeDrain(buffer, bufferBits, bytes) ==
  IF bufferBits >= 8
  THEN LET bits == bufferBits - 8
       IN decodeDrain(buffer % (2 ^ bits), bits,
                      bytes \o <<(buffer \div (2 ^ bits)) % 256>>)
  ELSE [ok |-> TRUE, buffer |-> buffer, bufferBits |-> bufferBits, bytes |-> bytes]

(* lines 268-277: the body of for (const char of trimmedStr); once line 270 *)
(* has thrown, nothing more is read                                         *)
decodeStep(st, char) ==
  LET value == indexOf(alphabet, char) IN
  IF ~st.ok THEN st
  ELSE IF value = -1 THEN [st EXCEPT !.ok = FALSE]
  ELSE decodeDrain((st.buffer * 32 + value) % (2 ^ (st.bufferBits + 5)),
                   st.bufferBits + 5, st.bytes)

(* for (const char of trimmedStr): decodeStep over seq[lo..hi], left to right.  The range is
   halved only to keep the evaluation shallow, and the state after the left
   half is bound as a value before the right half runs. *)
RECURSIVE decodeLoop(_, _, _, _)
decodeLoop(seq, lo, hi, st) ==
  IF lo > hi THEN st
  ELSE IF lo = hi THEN decodeStep(st, seq[lo])
  ELSE LET mid == (lo + hi) \div 2
       IN CHOOSE after \in { decodeLoop(seq, mid + 1, hi, left) :
                                left \in { decodeLoop(seq, lo, mid, st) } } : TRUE

(* line 266: Math.floor(...) || 1 replaces 0, and nothing else, by 1 *)
totalBytesEstimate(str) ==
  LET trimmedStr == trimFiller(str)
      paddingChars == Len(str) - Len(trimmedStr)
      floored == (Len(trimmedStr) * 5 - paddingChars * 8) \div 8
  IN IF floored = 0 THEN 1 ELSE floored

(* lines 268-283: the bytes pushed by the loop and by the final flush,      *)
(* before line 286 pops any of them                                         *)
decodeEmitted(str) ==
  LET trimmedStr == trimFiller(str)
      st == decodeLoop(trimmedStr, 1, Len(trimmedStr),
                  [ok |-> TRUE, buffer |-> 0, bufferBits |-> 0, bytes |-> <<>>])
  IN [ok |-> st.ok,
      bytes |-> IF st.bufferBits > 0
                THEN st.bytes \o <<(st.buffer * (2 ^ (8 - st.bufferBits))) % 256>>
                ELSE st.bytes]

base85Decode(str) ==
  LET paddingChars == Len(str) - Len(trimFiller(str))
      emitted == decodeEmitted(str)
      flushed == emitted.bytes
      expectedLength == totalBytesEstimate(str) + paddingChars
  IN IF ~emitted.ok
     THEN [ok |-> FALSE, bytes |-> <<>>]
     ELSE [ok |-> TRUE,
           bytes |-> IF Len(flushed) > expectedLength
                     THEN SubSeq(flushed, 1, IF expectedLength > 0 THEN expectedLength ELSE 0)
                     ELSE flushed]

(***************************************************************************)
(* Compression backend: zlib.gzip / zlib.gunzip or CompressionStream /     *)
(* DecompressionStream (an external library).  It is modelled by what the  *)
(* codec relies on: a container with a magic header, the data, and a       *)
(* trailer holding a checksum and the length of the data, which gunzip     *)
(* verifies; gunzip of anything else fails.                                *)
(***************************************************************************)
GzipMagic == <<31, 139>>

addByte(sum, byte) == (sum + byte) % 256

(* the checksum loop: addByte over seq[lo..hi], left to right.  The range is
   halved only to keep the evaluation shallow, and the state after the left
   half is bound as a value before the right half runs. *)
RECURSIVE sumLoop(_, _, _, _)
sumLoop(seq, lo, hi, st) ==
  IF lo > hi THEN st
  ELSE IF lo = hi THEN addByte(st, seq[lo])
  ELSE LET mid == (lo + hi) \div 2
       IN CHOOSE after \in { sumLoop(seq, mid + 1, hi, left) :
                                left \in { sumLoop(seq, lo, mid, st) } } : TRUE

byteSum(bytes) == sumLoop(bytes, 1, Len(bytes), 0)

gzip(bytes) == GzipMagic \o bytes \o <<byteSum(bytes), Len(bytes) % 256>>

gunzip(bytes) ==
  LET n == Len(bytes)
      body == SubSeq(bytes, 3, n - 2)
  IN IF /\ n >= 4
        /\ SubSeq(bytes, 1, 2) = GzipMagic
        /\ bytes[n - 1] = byteSum(body)
        /\ bytes[n] = Len(body) % 256
     THEN [ok |-> TRUE, bytes |-> body]
     ELSE [ok |-> FALSE, bytes |-> <<>>]

(***************************************************************************)
(* Option objects.  An option that the caller leaves out is <<>>, one that *)
(* is given is <<value>>; Default is the destructuring default of lines    *)
(* 292 and 342.                                                            *)
(***************************************************************************)
(* a lower limit than that of line 292 *)
maxSizeTwoKilo == 2 ^ 11

DefaultMaxSize == 2083

TextHtml == <<116, 101, 120, 116, 47, 104, 116, 109, 108>>

ApplicationOctetStream ==
  <<97, 112, 112, 108, 105, 99, 97, 116, 105, 111, 110, 47,
    111, 99, 116, 101, 116, 45, 115, 116, 114, 101, 97, 109>>

ApplicationJson ==
  <<97, 112, 112, 108, 105, 99, 97, 116, 105, 111, 110, 47, 106, 115, 111, 110>>

TextSlash == <<116, 101, 120, 116, 47>>

Default(opt, dflt) == IF opt = <<>> THEN dflt ELSE opt[1]

startsWith(str, prefix) ==
  Len(str) >= Len(prefix) /\ SubSeq(str, 1, Len(prefix)) = prefix

(***************************************************************************)
(* Whitespace normalisation, line 298:                                     *)
(*   input.replace(/\s+/g, ' ').trim()                                     *)
(***************************************************************************)
RECURSIVE replaceEachWhitespace(_)
replaceEachWhitespace(str) ==
  IF str = <<>> THEN <<>>
  ELSE (IF Head(str) \in WhiteSpace THEN <<Space>> ELSE <<Head(str)>>)
         \o replaceEachWhitespace(Tail(str))

RECURSIVE replaceWhitespaceRuns(_)
replaceWhitespaceRuns(str) ==
  IF str = <<>> THEN <<>>
  ELSE IF Head(str) \in WhiteSpace
    THEN IF Len(str) >= 2 /\ str[2] \in WhiteSpace
         THEN replaceWhitespaceRuns(Tail(str))
         ELSE <<Space>> \o replaceWhitespaceRuns(Tail(str))
    ELSE <<Head(str)>> \o replaceWhitespaceRuns(Tail(str))

RECURSIVE trimStart(_)
trimStart(str) ==
  IF str # <<>> /\ Head(str) \in WhiteSpace THEN trimStart(Tail(str)) ELSE str

RECURSIVE trimEnd(_)
trimEnd(str) ==
  IF str # <<>> /\ str[Len(str)] \in WhiteSpace
  THEN trimEnd(SubSeq(str, 1, Len(str) - 1))
  ELSE str

trim(str) == trimEnd(trimStart(str))

normalizeNoCollapse(input) == trim(replaceEachWhitespace(input))

normalize(input) == trim(replaceWhitespaceRuns(input))

(***************************************************************************)
(* Framing.  frame is lines 306-310 (bytes of "mimeType:" followed by the  *)
(* data bytes); frameText is the first revision's lines 115-116, which     *)
(* passes the data through a text decoder and encoder.                     *)
(***************************************************************************)
frameText(mimeType, data) == TextEncode(mimeType \o <<Colon>> \o TextDecode(data))

frame(mimeType, data) == TextEncode(mimeType \o <<Colon>>) \o data

(***************************************************************************)
(* Outcomes of a call: nothing yet, a returned result, or a thrown error.  *)
(***************************************************************************)
NoOutcome == [kind |-> "none"]

Error(name, message) == [kind |-> "error", name |-> name, message |-> message]

(* line 335: the message states the actual and the allowed size *)
PayloadTooLarge(size, maxSize) ==
  [kind |-> "error", name |-> "PayloadTooLarge",
   message |-> "Compressed payload (size chars) exceeds max URL size (maxSize chars)",
   size |-> size, maxSize |-> maxSize]

(* line 334: if (size > maxSize) *)
exceedsOrEquals(size, maxSize) == size >= maxSize

exceeds(size, maxSize) == size > maxSize

(***************************************************************************)
(* compressToUrl, lines 291-339.                                           *)
(* compressPrefix is the code up to the first await: it yields either the  *)
(* error thrown there or the frame handed to the backend.                  *)
(* compressSuffix is the code after the backend has delivered.             *)
(***************************************************************************)
(* lines 296-304: does the value have the declared inputType? *)
inputMatchesLoose(inputType, input) == inputType = "string" => input.type = "string"

inputMatches(inputType, input) ==
  \/ inputType = "string" /\ input.type = "string"
  \/ inputType = "binary" /\ input.type # "string"

(* a host with neither zlib nor the stream classes, taken to have a backend *)
backendAssumed(hasZlib, hasStreams) == TRUE

(* lines 313 and 321 / 347 and 355: zlib, or else CompressionStream and *)
(* DecompressionStream, can do the work                                 *)
backendAvailable(hasZlib, hasStreams) == hasZlib \/ hasStreams

compressPrefix(input, options, hasZlib, hasStreams) ==
  LET inputType == Default(options.inputType, "string")
      mimeType == Default(options.mimeType,
                          IF inputType = "string" THEN TextHtml ELSE ApplicationOctetStream)
      normalizeWhitespace == Default(options.normalizeWhitespace, FALSE)
      data == IF inputType = "string"
              THEN TextEncode(IF normalizeWhitespace THEN normalize(input.value)
                                                     ELSE input.value)
              ELSE input.value
      fullData == frame(mimeType, data)
  IN IF ~inputMatches(inputType, input)
     THEN [thrown |-> TRUE,
           error |-> Error("InvalidInputType",
                      IF inputType = "string"
                      THEN "Expected string input for inputType \"string\""
                      ELSE IF inputType = "binary"
                      THEN "Expected binary input for inputType \"binary\""
                      ELSE "Invalid inputType: use \"string\" or \"binary\"")]
     ELSE IF ~backendAvailable(hasZlib, hasStreams)
     THEN [thrown |-> TRUE,
           error |-> Error("BackendUnavailable",
                           "CompressionStream unavailable; modern browser or Worker required"),
           fullData |-> fullData]
     ELSE [thrown |-> FALSE, fullData |-> fullData]

(* the data symbols alone, without the filler characters *)
lengthWithoutFiller(payload) == Len(trimFiller(payload))

(* line 333: payload.length; every character of a payload is one code unit *)
length(payload) == Len(payload)

compressSuffix(compressedBytes, options) ==
  LET maxSize == Default(options.maxSize, DefaultMaxSize)
      payload == base85Encode(compressedBytes)
      size == length(payload)
  IN IF exceeds(size, maxSize)
     THEN PayloadTooLarge(size, maxSize)
     ELSE [kind |-> "result", payload |-> payload, size |-> size]

(***************************************************************************)
(* decompressFromUrl, lines 341-383.                                       *)
(***************************************************************************)
decompressPrefix(payload, hasZlib, hasStreams) ==
  LET decoded == base85Decode(payload) IN
  IF ~decoded.ok
  THEN [thrown |-> TRUE, error |-> Error("InvalidSymbol", "Invalid Base85 char")]
  ELSE IF ~backendAvailable(hasZlib, hasStreams)
  THEN [thrown |-> TRUE,
        error |-> Error("BackendUnavailable",
                        "DecompressionStream unavailable; modern browser or Worker required"),
        compressedBytes |-> decoded.bytes]
  ELSE [thrown |-> FALSE, compressedBytes |-> decoded.bytes]

(* lines 376-377 *)
returnAsStringAlways(outputType, mimeType) == TRUE

returnAsString(outputType, mimeType) ==
  LET isTextType == startsWith(mimeType, TextSlash) \/ mimeType = ApplicationJson
  IN outputType = "string" \/ (outputType = "auto" /\ isTextType)

(* the index of the last colon byte *)
colonIndexLast(bytes) ==
  IF Colon \in {bytes[i] : i \in 1..Len(bytes)}
  THEN (CHOOSE i \in 1..Len(bytes) :
          bytes[i] = Colon /\ \A j \in (i + 1)..Len(bytes) : bytes[j] # Colon) - 1
  ELSE -1

(* lines 367-370 without the check: the tag is everything before index -1 *)
colonIndexOrZero(bytes) == IF indexOf(bytes, Colon) = -1 THEN 0 ELSE indexOf(bytes, Colon)

colonIndexOf(bytes) == indexOf(bytes, Colon)

decompressSuffix(decompressedBytes, doptions) ==
  LET outputType == Default(doptions.outputType, "auto")
      colonIndex == colonIndexOf(decompressedBytes)
      mimeType == TextDecode(SubSeq(decompressedBytes, 1, colonIndex))
      dataBytes == SubSeq(decompressedBytes, colonIndex + 2, Len(decompressedBytes))
  IN IF colonIndex = -1
     THEN Error("MissingDelimiter", "MIME type not found in payload")
     ELSE IF returnAsString(outputType, mimeType)
     THEN [kind |-> "result", mimeType |-> mimeType,
           data |-> [type |-> "string", value |-> TextDecode(dataBytes)]]
     ELSE [kind |-> "result", mimeType |-> mimeType,
           data |-> [type |-> "Uint8Array", value |-> dataBytes]]

(***************************************************************************)
(* Inputs the environment may pass.                                        *)
(***************************************************************************)
RECURSIVE SeqsUpTo(_, _)
SeqsUpTo(S, n) ==
  IF n = 0 THEN {<<>>}
  ELSE LET shorter == SeqsUpTo(S, n - 1)
       IN shorter \cup {Append(q, e) : q \in {r \in shorter : Len(r) = n - 1}, e \in S}

(* space, colon, a, e-acute (2 bytes), an emoji (4 bytes), U+FEFF (3 bytes) *)
TextChars == {32, 58, 97, 233, 128514, 65279}

(* "  a   b  " of the whitespace example and a text with a newline and a tab *)
SampleTexts == { <<32, 32, 97, 32, 32, 32, 98, 32, 32>>, <<97, 10, 9, 32, 98>> }

Texts == SeqsUpTo(TextChars, MaxTextLen) \cup SampleTexts

ByteVals == {0, 58, 128, 255}

(* [0, 255, 127, 128, 65] of the binary example *)
SampleBinaries == { <<0, 255, 127, 128, 65>> }

Binaries == SeqsUpTo(ByteVals, MaxBinLen) \cup SampleBinaries

Inputs ==
  [type : {"string"}, value : Texts] \cup [type : {"Uint8Array"}, value : Binaries]

(* length of a text of the letter a whose payload, with the default tag, is  *)
(* just within the default maxSize; one letter more and it is beyond it      *)
LongTextLen == 1286

LongInputs ==
  { [type |-> "string", value |-> repeat(97, n)] : n \in {LongTextLen, LongTextLen + 1} }

(* explicit mimeType options: application/json, text, a:b *)
Tags == { ApplicationJson, <<116, 101, 120, 116>>, <<97, 58, 98>> }

SmallMaxSize == 24

CompressOptions ==
  [maxSize : {<<>>, <<SmallMaxSize>>},
   inputType : {<<>>, <<"string">>, <<"binary">>, <<"text">>},
   mimeType : {<<>>} \cup {<<t>> : t \in Tags},
   normalizeWhitespace : {<<>>, <<TRUE>>}]

DecompressOptions ==
  [outputType : {<<>>, <<"string">>, <<"binary">>, <<"auto">>}]

(* payloads typed by hand: short strings over 0, V, a, &, ~ and "abc&def" *)
PayloadChars == {48, 86, 97, 38, 126}

MaxPayloadLen == 2

SamplePayloads == { <<97, 98, 99, 38, 100, 101, 102>> }

(* payloads that hold a well-formed container of bytes never framed by compressToUrl *)
ForgedPayloads == { base85Encode(gzip(b)) : b \in SeqsUpTo({65, 58, 255}, 2) }

Payloads == SeqsUpTo(PayloadChars, MaxPayloadLen) \cup SamplePayloads \cup ForgedPayloads

(***************************************************************************)
(* State.  zlib is the module-level variable of lines 203-206; streams     *)
(* tells whether the host defines CompressionStream/DecompressionStream.   *)
(* calls[c] is the activation record of the call running in slot c: its    *)
(* arguments, its position (pc), the locals that live across an await, and *)
(* how the promise settled.  Three fields record history: backendCalls     *)
(* counts the requests the call made to the backend, fromResult tells that *)
(* the payload of a decompress call is the result of the compress call     *)
(* whose arguments input and options still hold, and overlapped tells that *)
(* the call began while another call was waiting for the backend.          *)
(* radix is a use of base85Encode and base85Decode on their own.           *)
(* editor is the state of the editor page: the state of the App component, *)
(* the query of window.location, the module-level encodingCache and the    *)
(* encodes that encodeAsYouType has scheduled.                             *)
(* debounced is one function returned by debounce, used on its own.        *)
(***************************************************************************)
VARIABLES zlib, streams, calls, radix, editor, debounced

vars == <<zlib, streams, calls, radix, editor, debounced>>

Calls == 1..MaxCalls

NoInput == [type |-> "string", value |-> <<>>]

NoOptions ==
  [maxSize |-> <<>>, inputType |-> <<>>, mimeType |-> <<>>, normalizeWhitespace |-> <<>>]

NoDecompressOptions == [outputType |-> <<>>]

IdleCall ==
  [op |-> "none", pc |-> "idle", input |-> NoInput, options |-> NoOptions,
   fromResult |-> FALSE, payload |-> <<>>, doptions |-> NoDecompressOptions,
   pending |-> <<>>, delivered |-> <<>>, backendCalls |-> 0, overlapped |-> FALSE,
   outcome |-> NoOutcome]

(* the radix codec used on its own: the bytes given to base85Encode, the    *)
(* string it returned (or a string written by hand), and what base85Decode *)
(* made of that string: its estimate, the bytes it pushed, what it returned *)
NoRadix ==
  [pc |-> "off", bytes |-> <<>>, str |-> <<>>, decoded |-> <<>>,
   totalBytesEstimate |-> 0, emitted |-> <<>>]

MaxEncodes == 3

Encodes == 1..MaxEncodes

NoEncode == [pc |-> "unused", code |-> <<>>, payload |-> <<>>, message |-> ""]

(* one function returned by debounce(func, wait), before it is made: the   *)
(* clock, the timeout variable of the closure (<<>> for undefined), the    *)
(* timers of the host that are pending, the next timer id, and the log of  *)
(* the calls of the function and of the runs of func, in the order they    *)
(* happened                                                                *)
NoDebounce == [pc |-> "off", now |-> 0, timeout |-> <<>>, timers |-> {}, nextId |-> 1, log |-> <<>>]

(* the editor page before it is opened; error and urlError hold <<>> for    *)
(* null, last records the last step that touched the page                   *)
NoEditor ==
  [pc |-> "off", defaultHtml |-> <<>>, htmlInput |-> <<>>, urlOutput |-> <<>>,
   error |-> <<>>, urlError |-> <<>>, search |-> <<>>, encodingCache |-> {},
   encodes |-> [e \in Encodes |-> NoEncode], scheduled |-> 0,
   last |-> [step |-> "none", code |-> <<>>]]

Init ==
  /\ zlib \in BOOLEAN
  /\ streams \in BOOLEAN
  /\ calls = [c \in Calls |-> IdleCall]
  /\ radix = NoRadix
  /\ editor = NoEditor
  /\ debounced = NoDebounce

Free(c) == calls[c].pc = "idle"

InFlight(c) == calls[c].pc \notin {"idle", "done"}

(* the record of a call that begins in slot c *)
NewCall(c, op) ==
  [IdleCall EXCEPT !.op = op, !.overlapped = \E d \in Calls \ {c} : InFlight(d)]

(* lines 313 and 324-326 / 347 and 358-360: hand the bytes to the backend *)
Requested(call, bytes) ==
  [call EXCEPT !.pc = IF zlib THEN "awaitZlib" ELSE "awaitResponse",
               !.pending = bytes, !.backendCalls = call.backendCalls + 1]

(* a rejection by the backend answered with a second request *)
SettledRetry(call, outcome) ==
  IF outcome.kind = "error" /\ outcome.name = "BackendFailure" /\ call.backendCalls < 2
  THEN Requested(call, call.pending)
  ELSE [call EXCEPT !.pc = "done", !.outcome = outcome]

(* return or throw: the promise of the call settles *)
Settled(call, outcome) == [call EXCEPT !.pc = "done", !.outcome = outcome]

(* a call of compressToUrl(input, options), with the arguments drawn from the *)
(* given sets: the code up to the first await                                 *)
CompressToUrl(c, inputs, optionSet) ==
  /\ Free(c)
  /\ \E input \in inputs, options \in optionSet :
       LET pre == compressPrefix(input, options, zlib, streams)
           call == [NewCall(c, "compress") EXCEPT !.input = input, !.options = options]
       IN calls' = [calls EXCEPT ![c] = IF pre.thrown THEN Settled(call, pre.error)
                                        ELSE Requested(call, pre.fullData)]
  /\ UNCHANGED <<zlib, streams, radix, editor, debounced>>

(* a call of decompressFromUrl(payload, doptions): the code up to the first await *)
StartDecompress(c, call) ==
  /\ LET pre == decompressPrefix(call.payload, zlib, streams)
     IN calls' = [calls EXCEPT ![c] = IF pre.thrown THEN Settled(call, pre.error)
                                      ELSE Requested(call, pre.compressedBytes)]
  /\ UNCHANGED <<zlib, streams, radix, editor, debounced>>

(* the caller passes a payload of its own *)
DecompressFromUrl(c, payloads, doptionSet) ==
  /\ Free(c)
  /\ \E payload \in payloads, doptions \in doptionSet :
       StartDecompress(c, [NewCall(c, "decompress") EXCEPT !.payload = payload,
                                                           !.doptions = doptions])

(* the caller passes the payload that the compress call of slot d returned *)
DecompressResult(c, d, doptionSet) ==
  /\ calls[d].op = "compress"
  /\ calls[d].pc = "done"
  /\ calls[d].outcome.kind = "result"
  /\ c = d \/ Free(c)
  /\ \E doptions \in doptionSet :
       StartDecompress(c, [NewCall(c, "decompress") EXCEPT
                             !.input = calls[d].input,
                             !.options = calls[d].options,
                             !.fromResult = TRUE,
                             !.payload = calls[d].outcome.payload,
                             !.doptions = doptions])

BackendFailure == Error("BackendFailure", "gunzip: the data is not a gzip container")

(* the code after the last await, run with the options of another call that *)
(* is waiting, as if the destructured options were module-level variables   *)
ContinueShared(call, bytes) ==
  LET others == {d \in Calls : /\ calls[d].pc \notin {"idle", "done"}
                               /\ calls[d].op = call.op
                               /\ calls[d] # call}
      shared == IF others = {} THEN call ELSE calls[CHOOSE d \in others : TRUE]
  IN Settled(call, IF call.op = "compress" THEN compressSuffix(bytes, shared.options)
                   ELSE decompressSuffix(bytes, shared.doptions))

(* the code after the last await *)
Continue(call, bytes) ==
  Settled(call, IF call.op = "compress" THEN compressSuffix(bytes, call.options)
                ELSE decompressSuffix(bytes, call.doptions))

(* lines 315-318 / 349-352: the zlib callback resolves or rejects the promise *)
ZlibCallback(c) ==
  /\ calls[c].pc = "awaitZlib"
  /\ \E reply \in { IF calls[c].op = "compress"
                     THEN [ok |-> TRUE, bytes |-> gzip(calls[c].pending)]
                     ELSE gunzip(calls[c].pending) } :
       calls' = [calls EXCEPT ![c] =
         IF reply.ok THEN Continue(calls[c], reply.bytes)
         ELSE Settled(calls[c], BackendFailure)]
  /\ UNCHANGED <<zlib, streams, radix, editor, debounced>>

(* the rest of the call runs as soon as the response exists, on the bytes   *)
(* delivered so far                                                         *)
ResponseNotAwaited(c) ==
  /\ calls[c].pc = "awaitResponse"
  /\ calls' = [calls EXCEPT ![c] = Continue(calls[c], calls[c].delivered)]
  /\ UNCHANGED <<zlib, streams, radix, editor, debounced>>

(* lines 326 / 360: await new Response(stream) *)
ResponseReady(c) ==
  /\ calls[c].pc = "awaitResponse"
  /\ calls' = [calls EXCEPT ![c].pc = "awaitBlob"]
  /\ UNCHANGED <<zlib, streams, radix, editor, debounced>>

(* lines 327 / 361: await response.blob() drains the stream, or rejects *)
BlobReady(c) ==
  /\ calls[c].pc = "awaitBlob"
  /\ LET call == calls[c]
         inflated == gunzip(call.pending)
     IN calls' = [calls EXCEPT ![c] =
          IF call.op = "compress"
          THEN [call EXCEPT !.pc = "awaitArrayBuffer", !.delivered = gzip(call.pending)]
          ELSE IF inflated.ok
          THEN [call EXCEPT !.pc = "awaitArrayBuffer", !.delivered = inflated.bytes]
          ELSE Settled(call, BackendFailure)]
  /\ UNCHANGED <<zlib, streams, radix, editor, debounced>>

(* the bytes are never taken: the call goes back to wait for the response *)
ArrayBufferAgain(c) ==
  /\ calls[c].pc = "awaitArrayBuffer"
  /\ calls' = [calls EXCEPT ![c].pc = "awaitResponse"]
  /\ UNCHANGED <<zlib, streams, radix, editor, debounced>>

(* lines 328-329 / 362-363: await blob.arrayBuffer(), then the rest of the call *)
ArrayBufferReady(c) ==
  /\ calls[c].pc = "awaitArrayBuffer"
  /\ calls' = [calls EXCEPT ![c] = Continue(calls[c], calls[c].delivered)]
  /\ UNCHANGED <<zlib, streams, radix, editor, debounced>>

(* the caller has consumed the settled promise; the slot serves the next call *)
Return(c) ==
  /\ calls[c].pc = "done"
  /\ calls' = [calls EXCEPT ![c] = IdleCall]
  /\ UNCHANGED <<zlib, streams, radix, editor, debounced>>

(***************************************************************************)
(* Spec: one call at a time (slot 1), every input.                         *)
(***************************************************************************)
Next ==
  \/ CompressToUrl(1, Inputs, CompressOptions)
  \/ CompressToUrl(1, LongInputs, {NoOptions})
  \/ DecompressFromUrl(1, Payloads, DecompressOptions)
  \/ DecompressResult(1, 1, DecompressOptions)
  \/ ZlibCallback(1)
  \/ ResponseReady(1)
  \/ BlobReady(1)
  \/ ArrayBufferReady(1)
  \/ Return(1)

Spec == Init /\ [][Next]_vars

(***************************************************************************)
(* SpecLive: Spec with a backend that completes every request it is given  *)
(* and an event loop that runs every continuation that is ready.  The      *)
(* response and the blob become ready (weak fairness of the two steps).    *)
(* The zlib callback is called and the array buffer is delivered: each of  *)
(* these steps is enabled exactly while the call waits at it and always    *)
(* leaves that position, so its weak fairness says that the call is not at *)
(* that position forever, and it is written that way.                      *)
(***************************************************************************)
SpecLive ==
  /\ Spec
  /\ WF_vars(ResponseReady(1))
  /\ WF_vars(BlobReady(1))
  /\ []<>(calls[1].pc # "awaitZlib")
  /\ []<>(calls[1].pc # "awaitArrayBuffer")

(***************************************************************************)
(* SpecConc: MaxCalls calls that overlap at their awaits, a few inputs.    *)
(***************************************************************************)
ConcInputs ==
  { [type |-> "string", value |-> <<97, 32, 98>>],
    [type |-> "Uint8Array", value |-> <<0, 58>>] }

ConcOptions == { NoOptions, [NoOptions EXCEPT !.maxSize = <<SmallMaxSize>>] }

ConcPayloads == { <<97, 98, 99, 38, 100, 101, 102>>, base85Encode(gzip(<<65>>)) }

ConcDecompressOptions == { NoDecompressOptions, [outputType |-> <<"binary">>] }

NextConc ==
  \E c \in Calls :
    \/ CompressToUrl(c, ConcInputs, ConcOptions)
    \/ DecompressFromUrl(c, ConcPayloads, ConcDecompressOptions)
    \/ \E d \in Calls : DecompressResult(c, d, ConcDecompressOptions)
    \/ ZlibCallback(c)
    \/ ResponseReady(c)
    \/ BlobReady(c)
    \/ ArrayBufferReady(c)
    \/ Return(c)

SpecConc == Init /\ [][NextConc]_vars

(***************************************************************************)
(* SpecRadix: base85Encode applied to a byte sequence, then base85Decode   *)
(* applied to the string it returned.                                      *)
(***************************************************************************)
RadixByteVals == {0, 165, 255}

MaxRadixLen == 6

(* byte strings of 10, 15 and 20 bytes: A5 00 FF A5 00 FF ... *)
MultipleOfFiveInputs ==
  { [i \in 1..n |-> IF i % 3 = 1 THEN 165 ELSE IF i % 3 = 2 THEN 0 ELSE 255] :
      n \in {10, 15, 20} }

RadixInputs == SeqsUpTo(RadixByteVals, MaxRadixLen) \cup MultipleOfFiveInputs

InitRadix ==
  /\ zlib = FALSE
  /\ streams = FALSE
  /\ calls = [c \in Calls |-> IdleCall]
  /\ radix \in {[NoRadix EXCEPT !.pc = "start", !.bytes = bytes] : bytes \in RadixInputs}
  /\ editor = NoEditor
  /\ debounced = NoDebounce

Base85Encode ==
  /\ radix.pc = "start"
  /\ radix' = [radix EXCEPT !.pc = "encoded", !.str = base85Encode(radix.bytes)]
  /\ UNCHANGED <<zlib, streams, calls, editor, debounced>>

Base85Decode ==
  /\ radix.pc = "encoded"
  /\ LET decoded == base85Decode(radix.str)
     IN radix' = [radix EXCEPT !.pc = IF decoded.ok THEN "decoded" ELSE "thrown",
                               !.decoded = decoded.bytes]
  /\ UNCHANGED <<zlib, streams, calls, editor, debounced>>

NextRadix == Base85Encode \/ Base85Decode

SpecRadix == InitRadix /\ [][NextRadix]_vars

(***************************************************************************)
(* base85Decode on a string that no encoder produced: short strings over   *)
(* 0 (index 0), V (31), W (32), ] (84), ~ (the filler, index 77) and &     *)
(* (not in the alphabet).                                                  *)
(***************************************************************************)
DecodeChars == {48, 86, 87, 93, 126, 38}

MaxDecodeLen == 4

DecodeInputs == SeqsUpTo(DecodeChars, MaxDecodeLen)

InitDecode ==
  /\ zlib = FALSE
  /\ streams = FALSE
  /\ calls = [c \in Calls |-> IdleCall]
  /\ radix \in {[NoRadix EXCEPT !.pc = "typed", !.str = str] : str \in DecodeInputs}
  /\ editor = NoEditor
  /\ debounced = NoDebounce

Base85DecodeString ==
  /\ radix.pc = "typed"
  /\ LET decoded == base85Decode(radix.str)
     IN radix' = [radix EXCEPT !.pc = IF decoded.ok THEN "read" ELSE "refused",
                               !.decoded = decoded.bytes,
                               !.totalBytesEstimate = totalBytesEstimate(radix.str),
                               !.emitted = IF decoded.ok THEN decodeEmitted(radix.str).bytes
                                           ELSE <<>>]
  /\ UNCHANGED <<zlib, streams, calls, editor, debounced>>

NextDecode == Base85DecodeString

SpecDecode == InitDecode /\ [][NextDecode]_vars

(***************************************************************************)
(* SpecMime: one call at a time, with mimeType options of every shape:     *)
(* the empty string, a colon alone, a:b, a:b:c, text/plain, e-acute, and a *)
(* tag that begins with U+FEFF.                                            *)
(***************************************************************************)
MimeTags ==
  { <<>>, <<58>>, <<97, 58, 98>>, <<97, 58, 98, 58, 99>>,
    <<116, 101, 120, 116, 47, 112, 108, 97, 105, 110>>, <<233>>, <<65279, 116>> }

MimeOptions ==
  [maxSize : {<<>>},
   inputType : {<<>>, <<"binary">>},
   mimeType : {<<t>> : t \in MimeTags},
   normalizeWhitespace : {<<>>}]

NextMime ==
  \/ CompressToUrl(1, Inputs, MimeOptions)
  \/ DecompressResult(1, 1, DecompressOptions)
  \/ ZlibCallback(1)
  \/ ResponseReady(1)
  \/ BlobReady(1)
  \/ ArrayBufferReady(1)
  \/ Return(1)

SpecMime == Init /\ [][NextMime]_vars

(***************************************************************************)
(* The two functions run from their first line to their last, with nothing *)
(* in between: what a call returns or throws when it runs alone.           *)
(***************************************************************************)
compressToUrl(input, options) ==
  LET pre == compressPrefix(input, options, zlib, streams)
  IN IF pre.thrown THEN pre.error ELSE compressSuffix(gzip(pre.fullData), options)

decompressFromUrl(payload, doptions) ==
  LET pre == decompressPrefix(payload, zlib, streams)
      inflated == gunzip(pre.compressedBytes)
  IN IF pre.thrown THEN pre.error
     ELSE IF ~inflated.ok THEN BackendFailure
     ELSE decompressSuffix(inflated.bytes, doptions)

(***************************************************************************)
(* The query of a URL, as URLSearchParams reads and writes it: the         *)
(* application/x-www-form-urlencoded format.  A list of parameters is a    *)
(* sequence of records [name, value].                                      *)
(***************************************************************************)
Ampersand == 38

EqualsSign == 61

PlusSign == 43

PercentSign == 37

HexDigits == <<48, 49, 50, 51, 52, 53, 54, 55, 56, 57, 65, 66, 67, 68, 69, 70>>

(* a byte written as it is, whatever it is *)
rawByte(b) == <<b>>

(* the serializer leaves letters, digits and * - . _ as they are, writes a *)
(* space as + and every other byte as %XX                                  *)
urlencodedByte(b) ==
  IF b = Space THEN <<PlusSign>>
  ELSE IF \/ b \in 48..57 \/ b \in 65..90 \/ b \in 97..122 \/ b \in {42, 45, 46, 95}
  THEN <<b>>
  ELSE <<PercentSign, HexDigits[(b \div 16) + 1], HexDigits[(b % 16) + 1]>>

RECURSIVE urlencodedBytes(_, _)
urlencodedBytes(bytes, i) ==
  IF i > Len(bytes) THEN <<>> ELSE urlencodedByte(bytes[i]) \o urlencodedBytes(bytes, i + 1)

urlencoded(str) == urlencodedBytes(TextEncode(str), 1)

RECURSIVE urlencodedSerialize(_)
urlencodedSerialize(list) ==
  IF list = <<>> THEN <<>>
  ELSE LET pair == urlencoded(list[1].name) \o <<EqualsSign>> \o urlencoded(list[1].value)
       IN IF Len(list) = 1 THEN pair
          ELSE pair \o <<Ampersand>> \o urlencodedSerialize(Tail(list))

(* the value of a hexadecimal digit, -1 for any other character *)
hexValue(ch) ==
  IF ch \in 48..57 THEN ch - 48
  ELSE IF ch \in 65..70 THEN ch - 55
  ELSE IF ch \in 97..102 THEN ch - 87
  ELSE -1

(* percent-decode: %XX with two hexadecimal digits is one byte, every other *)
(* byte is itself                                                           *)
RECURSIVE percentDecode(_, _)
percentDecode(bytes, i) ==
  IF i > Len(bytes) THEN <<>>
  ELSE IF /\ bytes[i] = PercentSign
          /\ i + 2 <= Len(bytes)
          /\ hexValue(bytes[i + 1]) # -1
          /\ hexValue(bytes[i + 2]) # -1
  THEN <<16 * hexValue(bytes[i + 1]) + hexValue(bytes[i + 2])>> \o percentDecode(bytes, i + 3)
  ELSE <<bytes[i]>> \o percentDecode(bytes, i + 1)

plusToSpace(bytes) == [i \in 1..Len(bytes) |-> IF bytes[i] = PlusSign THEN Space ELSE bytes[i]]

(* the pieces of a string between the occurrences of a separator *)
RECURSIVE split(_, _)
split(str, sep) ==
  LET i == indexOf(str, sep)
  IN IF i = -1 THEN <<str>>
     ELSE <<SubSeq(str, 1, i)>> \o split(SubSeq(str, i + 2, Len(str)), sep)

parsePiece(piece) ==
  LET i == indexOf(piece, EqualsSign)
      name == IF i = -1 THEN piece ELSE SubSeq(piece, 1, i)
      value == IF i = -1 THEN <<>> ELSE SubSeq(piece, i + 2, Len(piece))
  IN [name |-> Utf8Decode(percentDecode(plusToSpace(name), 1)),
      value |-> Utf8Decode(percentDecode(plusToSpace(value), 1))]

urlencodedParse(search) ==
  LET pieces == SelectSeq(split(TextEncode(search), Ampersand), LAMBDA piece : piece # <<>>)
  IN [i \in 1..Len(pieces) |-> parsePiece(pieces[i])]

(* URLSearchParams: getAll, get (<<>> stands for null), set, delete *)
searchParamsGetAll(list, name) ==
  LET found == SelectSeq(list, LAMBDA pair : pair.name = name)
  IN [i \in 1..Len(found) |-> found[i].value]

searchParamsGet(list, name) ==
  IF searchParamsGetAll(list, name) = <<>> THEN <<>>
  ELSE <<searchParamsGetAll(list, name)[1]>>

searchParamsSet(list, name, value) ==
  IF \E i \in 1..Len(list) : list[i].name = name
  THEN LET first == CHOOSE i \in 1..Len(list) :
                      list[i].name = name /\ \A j \in 1..(i - 1) : list[j].name # name
           kept == {i \in 1..Len(list) : list[i].name # name \/ i = first}
           nth(k) == CHOOSE i \in kept : Cardinality({j \in kept : j <= i}) = k
       IN [k \in 1..Cardinality(kept) |->
             IF nth(k) = first THEN [name |-> name, value |-> value] ELSE list[nth(k)]]
  ELSE Append(list, [name |-> name, value |-> value])

searchParamsDelete(list, name) == SelectSeq(list, LAMBDA pair : pair.name # name)

(***************************************************************************)
(* The editor page.  A step of the page is an event handler, a timer, or   *)
(* the part of an async function between two awaits.  Every handler that   *)
(* calls encodeAsYouType also changes the state of the component, so the   *)
(* component is rendered again and debounce(...) builds a new function     *)
(* with its own timeout variable before the next call: clearTimeout always *)
(* receives undefined and a timer, once set, fires.                        *)
(***************************************************************************)
ParamU == <<117>>

ParamEdit == <<101, 100, 105, 116>>

ParamError == <<101, 114, 114, 111, 114>>

One == <<49>>

(* the options compressCode passes to compressToUrl *)
CodeOptions ==
  [maxSize |-> <<>>, inputType |-> <<"string">>, mimeType |-> <<TextHtml>>,
   normalizeWhitespace |-> <<FALSE>>]

StringInput(code) == [type |-> "string", value |-> code]

(* what is typed: a, <b>, and a text too long for the default maxSize *)
EditorCodes == { <<97>>, <<60, 98, 62>>, repeat(97, LongTextLen + 1) }

(* window.DEFAULT_HTML: not set, or a text *)
DefaultHtmls == { <<>>, <<60, 98, 62>> }

(* the query the page is opened with: nothing; u=0V~; u=a%26edit%3D1;      *)
(* edit=1&u=0+V&u=b; error=x+y; error=%25&u=0V; edit=1&error=x&edit=2      *)
InitialSearches ==
  { <<>>,
    <<117, 61, 48, 86, 126>>,
    <<117, 61, 97, 37, 50, 54, 101, 100, 105, 116, 37, 51, 68, 49>>,
    <<101, 100, 105, 116, 61, 49, 38, 117, 61, 48, 43, 86, 38, 117, 61, 98>>,
    <<101, 114, 114, 111, 114, 61, 120, 43, 121>>,
    <<101, 114, 114, 111, 114, 61, 37, 50, 53, 38, 117, 61, 48, 86>>,
    <<101, 100, 105, 116, 61, 49, 38, 101, 114, 114, 111, 114, 61, 120, 38,
      101, 100, 105, 116, 61, 50>> }

(* decodeURIComponent throws URIError on a % that two hexadecimal digits    *)
(* do not follow                                                            *)
malformedEscape(str) ==
  \E i \in 1..Len(str) :
    /\ str[i] = PercentSign
    /\ ~(i + 2 <= Len(str) /\ hexValue(str[i + 1]) # -1 /\ hexValue(str[i + 2]) # -1)

decodeURIComponent(str) == Utf8Decode(percentDecode(TextEncode(str), 1))

InitEditor ==
  /\ zlib = FALSE
  /\ streams \in BOOLEAN
  /\ calls = [c \in Calls |-> IdleCall]
  /\ radix = NoRadix
  /\ editor \in { [NoEditor EXCEPT !.pc = "loaded", !.defaultHtml = html,
                                   !.htmlInput = html, !.search = search] :
                    html \in DefaultHtmls, search \in InitialSearches }
  /\ debounced = NoDebounce

(* encodeAsYouType(code): the debounced function sets a timer *)
Scheduled(ed, code) ==
  [ed EXCEPT !.scheduled = ed.scheduled + 1,
             !.encodes[ed.scheduled + 1] = [NoEncode EXCEPT !.pc = "timer", !.code = code]]

(* the effect that runs once, after the first render *)
Mount ==
  /\ editor.pc = "loaded"
  /\ LET urlParams == urlencodedParse(editor.search)
         encodedHtml == searchParamsGet(urlParams, ParamU)
         errorParam == searchParamsGet(urlParams, ParamError)
         hasError == errorParam # <<>> /\ errorParam[1] # <<>>
     IN IF hasError /\ malformedEscape(errorParam[1])
        THEN editor' = [editor EXCEPT !.pc = "crashed", !.last = [step |-> "crashed", code |-> <<>>]]
        ELSE LET shown == [editor EXCEPT
                             !.pc = "mounted",
                             !.last = [step |-> "mounted", code |-> <<>>],
                             !.urlError = IF hasError THEN <<decodeURIComponent(errorParam[1])>>
                                          ELSE <<>>]
             IN editor' =
                  IF encodedHtml # <<>> /\ encodedHtml[1] # <<>>
                  THEN [shown EXCEPT !.urlOutput = encodedHtml[1]]
                  ELSE IF editor.defaultHtml # <<>>
                  THEN Scheduled([shown EXCEPT !.htmlInput = editor.defaultHtml], editor.defaultHtml)
                  ELSE shown
  /\ UNCHANGED <<zlib, streams, calls, radix, debounced>>

HandleInputChange(codes) ==
  /\ editor.pc = "mounted"
  /\ editor.scheduled < MaxEncodes
  /\ \E code \in codes \ {editor.htmlInput} :
       editor' = Scheduled([editor EXCEPT !.htmlInput = code,
                                          !.last = [step |-> "typed", code |-> code]], code)
  /\ UNCHANGED <<zlib, streams, calls, radix, debounced>>

(* encodeAsYouType after its await, lines 41-47: the payload is shown and   *)
(* written in the browser URL                                               *)
Encoded(ed, e, payload) ==
  LET params == searchParamsSet(
                  searchParamsSet(urlencodedParse(ed.search), ParamU, payload),
                  ParamEdit, One)
  IN [ed EXCEPT !.encodes[e].pc = "done",
                !.encodes[e].payload = payload,
                !.urlOutput = payload,
                !.search = urlencodedSerialize(params),
                !.error = <<>>,
                !.last = [step |-> "encoded", code |-> ed.encodes[e].code]]

(* the catch of lines 48-50 *)
Failed(ed, e, message) ==
  [ed EXCEPT !.encodes[e].pc = "done",
             !.encodes[e].message = message,
             !.error = <<message>>,
             !.last = [step |-> "failed", code |-> ed.encodes[e].code]]

(* the timer fires and encodeAsYouType calls compressCode: a cached payload *)
(* is returned at once and encodeAsYouType goes on with it in the same      *)
(* turn; otherwise compressToUrl is called and the call waits               *)
TimerFires(e) ==
  /\ editor.encodes[e].pc = "timer"
  /\ \A d \in 1..(e - 1) : editor.encodes[d].pc # "timer"
  /\ LET code == editor.encodes[e].code
         hit == {entry \in editor.encodingCache : entry.code = code}
     IN editor' =
          IF hit # {}
          THEN Encoded(editor, e, (CHOOSE entry \in hit : TRUE).payload)
          ELSE [editor EXCEPT !.encodes[e].pc = "compressing"]
  /\ UNCHANGED <<zlib, streams, calls, radix, debounced>>

(* compressCode writes the cache whatever compressToUrl did: after a        *)
(* failure the entry holds an empty payload                                 *)
CompressSettlesAlwaysCaches(e) ==
  /\ editor.encodes[e].pc = "compressing"
  /\ \E outcome \in { compressToUrl(StringInput(editor.encodes[e].code), CodeOptions) } :
       LET cached == [editor EXCEPT
                        !.encodingCache =
                           {entry \in editor.encodingCache :
                              entry.code # editor.encodes[e].code}
                           \cup {[code |-> editor.encodes[e].code,
                                  payload |-> IF outcome.kind = "result"
                                              THEN outcome.payload ELSE <<>>]}]
       IN editor' = IF outcome.kind = "result" THEN Encoded(cached, e, outcome.payload)
                    ELSE Failed(cached, e, outcome.message)
  /\ UNCHANGED <<zlib, streams, calls, radix, debounced>>

(* compressToUrl settles, at any time and in any order among the calls that *)
(* wait: compressCode stores and returns the payload and encodeAsYouType    *)
(* goes on with it, or the error reaches the catch of encodeAsYouType       *)
CompressSettles(e) ==
  /\ editor.encodes[e].pc = "compressing"
  /\ \E outcome \in { compressToUrl(StringInput(editor.encodes[e].code), CodeOptions) } :
       editor' =
         IF outcome.kind = "result"
         THEN Encoded([editor EXCEPT
                         !.encodingCache =
                            {entry \in editor.encodingCache :
                               entry.code # editor.encodes[e].code}
                            \cup {[code |-> editor.encodes[e].code,
                                   payload |-> outcome.payload]}],
                      e, outcome.payload)
         ELSE Failed(editor, e, outcome.message)
  /\ UNCHANGED <<zlib, streams, calls, radix, debounced>>

(* the close button of the error banner, shown while urlError is set *)
CloseErrorBanner ==
  /\ editor.pc = "mounted"
  /\ editor.urlError # <<>>
  /\ editor.urlError[1] # <<>>
  /\ editor' = [editor EXCEPT
                  !.urlError = <<>>,
                  !.search = urlencodedSerialize(
                               searchParamsDelete(urlencodedParse(editor.search), ParamError)),
                  !.last = [step |-> "closed", code |-> <<>>]]
  /\ UNCHANGED <<zlib, streams, calls, radix, debounced>>

NextEditor ==
  \/ Mount
  \/ HandleInputChange(EditorCodes)
  \/ \E e \in Encodes : TimerFires(e)
  \/ \E e \in Encodes : CompressSettles(e)
  \/ CloseErrorBanner

SpecEditor == InitEditor /\ [][NextEditor]_vars

(* the query of the link shareLink() returns: a URL made from the origin    *)
(* alone has no query, so the list starts empty                             *)
shareLink(urlOutput) ==
  urlencodedSerialize(searchParamsDelete(searchParamsSet(<<>>, ParamU, urlOutput), ParamEdit))

(***************************************************************************)
(* debounce(func, wait) on its own: one returned function, called at any   *)
(* moment with any argument.  Time is counted in ticks; the host runs a    *)
(* timer when its delay has elapsed, so the clock does not pass the moment *)
(* a pending timer is due.  clearTimeout of undefined, or of the id of a   *)
(* timer that has run, does nothing.                                       *)
(***************************************************************************)
DebounceWait == 2

MaxTime == 6

MaxDebounceCalls == 4

DebounceArgs == {"x", "y"}

InitDebounce ==
  /\ zlib = FALSE
  /\ streams = FALSE
  /\ calls = [c \in Calls |-> IdleCall]
  /\ radix = NoRadix
  /\ editor = NoEditor
  /\ debounced = [NoDebounce EXCEPT !.pc = "made"]

(* clearTimeout(id) *)
clearTimeout(timers, timeout) ==
  {timer \in timers : timeout = <<>> \/ timer.id # timeout[1]}

(* the returned function without line 12: the pending timer is left alone *)
DebouncedCallNoClear(argSet) ==
  /\ debounced.pc = "made"
  /\ Cardinality({k \in 1..Len(debounced.log) : debounced.log[k].kind = "call"})
       < MaxDebounceCalls
  /\ \E args \in argSet :
       debounced' = [debounced EXCEPT
         !.timers = debounced.timers
                      \cup {[id |-> debounced.nextId, due |-> debounced.now + DebounceWait,
                             args |-> args]},
         !.timeout = <<debounced.nextId>>,
         !.nextId = debounced.nextId + 1,
         !.log = Append(debounced.log, [kind |-> "call", at |-> debounced.now, args |-> args])]
  /\ UNCHANGED <<zlib, streams, calls, radix, editor>>

(* lines 11-14, the returned function: clearTimeout(timeout), then          *)
(* timeout = setTimeout(() => func(...args), wait)                          *)
DebouncedCall(argSet) ==
  /\ debounced.pc = "made"
  /\ Cardinality({k \in 1..Len(debounced.log) : debounced.log[k].kind = "call"})
       < MaxDebounceCalls
  /\ \E args \in argSet :
       debounced' = [debounced EXCEPT
         !.timers = clearTimeout(debounced.timers, debounced.timeout)
                      \cup {[id |-> debounced.nextId, due |-> debounced.now + DebounceWait,
                             args |-> args]},
         !.timeout = <<debounced.nextId>>,
         !.nextId = debounced.nextId + 1,
         !.log = Append(debounced.log, [kind |-> "call", at |-> debounced.now, args |-> args])]
  /\ UNCHANGED <<zlib, streams, calls, radix, editor>>

(* line 13, the timer callback: func(...args) *)
TimeoutFires ==
  /\ debounced.pc = "made"
  /\ \E timer \in debounced.timers :
       /\ timer.due <= debounced.now
       /\ \A other \in debounced.timers : other.id >= timer.id \/ other.due > timer.due
       /\ debounced' = [debounced EXCEPT
            !.timers = debounced.timers \ {timer},
            !.log = Append(debounced.log,
                           [kind |-> "run", at |-> debounced.now, args |-> timer.args])]
  /\ UNCHANGED <<zlib, streams, calls, radix, editor>>

(* a tick of the clock *)
Tick ==
  /\ debounced.pc = "made"
  /\ debounced.now < MaxTime
  /\ \A timer \in debounced.timers : timer.due > debounced.now
  /\ debounced' = [debounced EXCEPT !.now = debounced.now + 1]
  /\ UNCHANGED <<zlib, streams, calls, radix, editor>>

NextDebounce ==
  \/ DebouncedCall(DebounceArgs)
  \/ TimeoutFires
  \/ Tick

SpecDebounce == InitDebounce /\ [][NextDebounce]_vars

(***************************************************************************)
(* Vocabulary of the properties.                                           *)
(***************************************************************************)
Range(seq) == {seq[i] : i \in 1..Len(seq)}

Done(c, op) == calls[c].op = op /\ calls[c].pc = "done"

(* a decompress call that has settled and whose payload a compress call returned *)
RoundTrip(c) == Done(c, "decompress") /\ calls[c].fromResult

(* the options of the compress call, with the defaults of line 292 *)
InputTypeOf(call) == Default(call.options.inputType, "string")

TagOf(call) ==
  Default(call.options.mimeType,
          IF InputTypeOf(call) = "string" THEN TextHtml ELSE ApplicationOctetStream)

MaxSizeOf(call) == Default(call.options.maxSize, DefaultMaxSize)

OutputTypeOf(call) == Default(call.doptions.outputType, "auto")

ColonFree(tag) == Colon \notin Range(tag)

AbcAmpDef == <<97, 98, 99, 38, 100, 101, 102>>

(***************************************************************************)
(* C1.  A text compressed with default options and decompressed with       *)
(* default options comes back as the same text, with mimeType text/html.   *)
(* The code does not keep this: a text that begins with U+FEFF comes back  *)
(* without it.                                                             *)
(***************************************************************************)
C1_TextRoundTrip ==
  \A c \in Calls :
    ( /\ RoundTrip(c)
      /\ calls[c].input.type = "string"
      /\ calls[c].options = NoOptions
      /\ calls[c].doptions = NoDecompressOptions )
    => /\ calls[c].outcome.kind = "result"
       /\ calls[c].outcome.data = [type |-> "string", value |-> calls[c].input.value]
       /\ calls[c].outcome.mimeType = TextHtml

C3_AlphabetClosure ==
  \A c \in Calls :
    (Done(c, "compress") /\ calls[c].outcome.kind = "result")
    => \A i \in 1..Len(calls[c].outcome.payload) :
         calls[c].outcome.payload[i] \in Range(alphabet) \cup {Tilde}

(* a returned payload that ends in filler characters *)
C3_Witness ==
  \E c \in Calls :
    /\ Done(c, "compress")
    /\ calls[c].outcome.kind = "result"
    /\ Len(calls[c].outcome.payload) >= 2
    /\ calls[c].outcome.payload[Len(calls[c].outcome.payload)] = Tilde

(***************************************************************************)
(* C4.  A compress call that got its compressed bytes fails with           *)
(* PayloadTooLarge exactly when the encoded string is longer than maxSize; *)
(* the error carries the actual length and maxSize; a length equal to      *)
(* maxSize is accepted.  No other call fails with PayloadTooLarge.         *)
(***************************************************************************)
C4_SizeEnforcement ==
  \A c \in Calls :
    Done(c, "compress") =>
      IF calls[c].backendCalls = 0
      THEN calls[c].outcome.kind = "error" /\ calls[c].outcome.name # "PayloadTooLarge"
      ELSE LET encoded == base85Encode(gzip(calls[c].pending))
               maxSize == MaxSizeOf(calls[c])
           IN IF Len(encoded) > maxSize
              THEN /\ calls[c].outcome.kind = "error"
                   /\ calls[c].outcome.name = "PayloadTooLarge"
                   /\ calls[c].outcome.size = Len(encoded)
                   /\ calls[c].outcome.maxSize = maxSize
              ELSE /\ calls[c].outcome.kind = "result"
                   /\ calls[c].outcome.payload = encoded

(* a payload whose length is exactly the given maxSize has been returned *)
C4_Witness ==
  \E c \in Calls :
    /\ Done(c, "compress")
    /\ calls[c].options.maxSize # <<>>
    /\ calls[c].outcome.kind = "result"
    /\ Len(calls[c].outcome.payload) = MaxSizeOf(calls[c])

(***************************************************************************)
(* C5.  decompressFromUrl of a payload that holds a character outside the  *)
(* alphabet, and of "abc&def" in particular, fails with "Invalid Base85    *)
(* char", whatever the host, and without reaching the backend.             *)
(***************************************************************************)
C5_InvalidSymbol ==
  \A c \in Calls :
    ( /\ Done(c, "decompress")
      /\ \/ \E i \in 1..Len(calls[c].payload) : calls[c].payload[i] \notin Range(alphabet)
         \/ calls[c].payload = AbcAmpDef )
    => /\ calls[c].outcome = Error("InvalidSymbol", "Invalid Base85 char")
       /\ calls[c].backendCalls = 0

(* decompressFromUrl("abc&def") has failed with Invalid Base85 char *)
C5_Witness ==
  \E c \in Calls :
    /\ Done(c, "decompress")
    /\ calls[c].payload = AbcAmpDef
    /\ calls[c].outcome.kind = "error"
    /\ calls[c].outcome.name = "InvalidSymbol"

(* the value does not have the declared inputType *)
Mismatch(call) ==
  \/ InputTypeOf(call) = "string" /\ call.input.type # "string"
  \/ InputTypeOf(call) = "binary" /\ call.input.type = "string"
  \/ InputTypeOf(call) \notin {"string", "binary"}

(***************************************************************************)
(* C6.  A compress call whose value does not match the declared inputType  *)
(* (or whose inputType is neither string nor binary) fails with            *)
(* InvalidInputType; nothing has been framed and the backend has not been  *)
(* asked.                                                                  *)
(***************************************************************************)
C6_InvalidInputType ==
  \A c \in Calls :
    (calls[c].op = "compress" /\ Mismatch(calls[c]))
    => /\ calls[c].pc = "done"
       /\ calls[c].outcome.kind = "error"
       /\ calls[c].outcome.name = "InvalidInputType"
       /\ calls[c].pending = <<>>
       /\ calls[c].backendCalls = 0

(* a string passed as binary has been refused *)
C6_Witness ==
  \E c \in Calls :
    /\ Done(c, "compress")
    /\ calls[c].options.inputType = <<"binary">>
    /\ calls[c].input.type = "string"
    /\ calls[c].outcome.kind = "error"
    /\ calls[c].outcome.name = "InvalidInputType"

(***************************************************************************)
(* C7.  The data of a decompress result is text when outputType is string, *)
(* bytes when it is binary, and for auto (the default) text exactly when   *)
(* the recovered tag starts with text/ or is application/json.             *)
(***************************************************************************)
C7_OutputTyping ==
  \A c \in Calls :
    (Done(c, "decompress") /\ calls[c].outcome.kind = "result")
    => LET tag == calls[c].outcome.mimeType
           isText == \/ Len(tag) >= 5 /\ SubSeq(tag, 1, 5) = <<116, 101, 120, 116, 47>>
                     \/ tag = ApplicationJson
           type == calls[c].outcome.data.type
       IN /\ type \in {"string", "Uint8Array"}
          /\ OutputTypeOf(calls[c]) = "string" => type = "string"
          /\ OutputTypeOf(calls[c]) = "binary" => type = "Uint8Array"
          /\ OutputTypeOf(calls[c]) = "auto" => (type = "string" <=> isText)

(* auto has returned bytes for the tag "text", which does not start with text/ *)
C7_Witness ==
  \E c \in Calls :
    /\ Done(c, "decompress")
    /\ calls[c].outcome.kind = "result"
    /\ calls[c].doptions.outputType = <<>>
    /\ calls[c].outcome.mimeType = <<116, 101, 120, 116>>
    /\ calls[c].outcome.data.type = "Uint8Array"

(* whitespace-normal texts *)
IsWs(ch) == ch \in WhiteSpace

NonWsPositions(str) == {i \in 1..Len(str) : ~IsWs(str[i])}

(* the position in str of its k-th non-whitespace character *)
NthNonWs(str, k) ==
  CHOOSE i \in NonWsPositions(str) :
    Cardinality({j \in NonWsPositions(str) : j <= i}) = k

IsNormal(str) ==
  /\ \A i \in 1..Len(str) : IsWs(str[i]) => str[i] = Space
  /\ str # <<>> => ~IsWs(str[1]) /\ ~IsWs(str[Len(str)])
  /\ \A i \in 1..(Len(str) - 1) : ~(IsWs(str[i]) /\ IsWs(str[i + 1]))

IsNormalFormOf(out, in) ==
  /\ IsNormal(out)
  /\ Cardinality(NonWsPositions(out)) = Cardinality(NonWsPositions(in))
  /\ \A k \in 1..Cardinality(NonWsPositions(in)) :
       out[NthNonWs(out, k)] = in[NthNonWs(in, k)]
  /\ \A k \in 1..(Cardinality(NonWsPositions(in)) - 1) :
       (NthNonWs(out, k + 1) = NthNonWs(out, k) + 1)
         <=> (NthNonWs(in, k + 1) = NthNonWs(in, k) + 1)

(***************************************************************************)
(* C8.  With normalizeWhitespace and string input (under a colon-free      *)
(* tag), the text recovered keeps the non-whitespace characters of the     *)
(* input in order, has one space exactly where the input has a whitespace  *)
(* run between two of them, and has no leading, trailing or consecutive    *)
(* whitespace; an input that is already in that form is recovered          *)
(* unchanged.                                                              *)
(***************************************************************************)
C8_NormalizeWhitespace ==
  \A c \in Calls :
    ( /\ RoundTrip(c)
      /\ InputTypeOf(calls[c]) = "string"
      /\ calls[c].options.normalizeWhitespace = <<TRUE>>
      /\ ColonFree(TagOf(calls[c]))
      /\ calls[c].outcome.kind = "result"
      /\ calls[c].outcome.data.type = "string" )
    => /\ IsNormalFormOf(calls[c].outcome.data.value, calls[c].input.value)
       /\ IsNormal(calls[c].input.value)
            => calls[c].outcome.data.value = calls[c].input.value

(* "  a   b  " has come back as "a b" *)
C8_Witness ==
  \E c \in Calls :
    /\ RoundTrip(c)
    /\ calls[c].options.normalizeWhitespace = <<TRUE>>
    /\ calls[c].input.value = <<32, 32, 97, 32, 32, 32, 98, 32, 32>>
    /\ calls[c].outcome.kind = "result"
    /\ calls[c].outcome.data = [type |-> "string", value |-> <<97, 32, 98>>]

(***************************************************************************)
(* C9.  A decompress call whose inflated bytes hold no colon byte fails    *)
(* with "MIME type not found in payload".                                  *)
(***************************************************************************)
C9_MissingDelimiter ==
  \A c \in Calls :
    ( /\ Done(c, "decompress")
      /\ calls[c].backendCalls = 1
      /\ gunzip(calls[c].pending).ok
      /\ Colon \notin Range(gunzip(calls[c].pending).bytes) )
    => calls[c].outcome = Error("MissingDelimiter", "MIME type not found in payload")

(* a well-formed container of colon-free bytes has been refused *)
C9_Witness ==
  \E c \in Calls :
    /\ Done(c, "decompress")
    /\ gunzip(calls[c].pending).ok
    /\ gunzip(calls[c].pending).bytes = <<65, 255>>
    /\ calls[c].outcome.kind = "error"
    /\ calls[c].outcome.name = "MissingDelimiter"

(***************************************************************************)
(* C10.  Calls share no mutable state: however the calls interleave at     *)
(* their awaits, and whatever ran before in the slot or in other slots,    *)
(* a call settles the way the same call settles when it runs alone.        *)
(***************************************************************************)
C10_Isolation ==
  \A c \in Calls :
    calls[c].pc = "done" =>
      calls[c].outcome = IF calls[c].op = "compress"
                         THEN compressToUrl(calls[c].input, calls[c].options)
                         ELSE decompressFromUrl(calls[c].payload, calls[c].doptions)

(* a call that began while another was waiting has returned a result, and a *)
(* call with other options is still waiting                                 *)
C10_Witness ==
  \E c, d \in Calls :
    /\ calls[c].pc = "done"
    /\ calls[c].overlapped
    /\ calls[c].outcome.kind = "result"
    /\ InFlight(d)
    /\ calls[d].op = calls[c].op
    /\ <<calls[d].options, calls[d].doptions>> # <<calls[c].options, calls[c].doptions>>

(***************************************************************************)
(* C11.  Every call ends in exactly one of a returned result or a raised   *)
(* error: the promise holds an outcome exactly when the call has ended;    *)
(* the backend is asked at most once per call; a call that failed before   *)
(* the backend (input type, symbol, no backend) never asked it and holds   *)
(* no bytes; a result was returned only after the backend was asked; and   *)
(* when the backend rejects the bytes the caller gets the backend's error  *)
(* itself, after one request, and nothing was delivered.                   *)
(***************************************************************************)
C11_ExactlyOneOutcome ==
  \A c \in Calls :
    LET call == calls[c] IN
    /\ call.backendCalls <= 1
    /\ (call.pc = "done") = (call.outcome # NoOutcome)
    /\ call.pc = "done" => call.outcome.kind \in {"result", "error"}
    /\ InFlight(c) => call.backendCalls = 1
    /\ call.pc = "done" /\ call.outcome.kind = "result" => call.backendCalls = 1
    /\ ( /\ call.pc = "done"
         /\ call.outcome.kind = "error"
         /\ call.outcome.name \in {"InvalidInputType", "InvalidSymbol", "BackendUnavailable"} )
       => call.backendCalls = 0 /\ call.pending = <<>> /\ call.delivered = <<>>
    /\ ( /\ call.pc = "done"
         /\ call.op = "decompress"
         /\ call.backendCalls >= 1
         /\ ~gunzip(call.pending).ok )
       => /\ call.outcome = BackendFailure
          /\ call.backendCalls = 1
          /\ call.delivered = <<>>

(* a decompress call whose bytes the backend rejected has ended with that error *)
C11_Witness ==
  \E c \in Calls :
    /\ Done(c, "decompress")
    /\ calls[c].backendCalls = 1
    /\ ~gunzip(calls[c].pending).ok
    /\ calls[c].outcome = BackendFailure

(***************************************************************************)
(* C12.  In a host with neither zlib nor CompressionStream and             *)
(* DecompressionStream, a compressToUrl call whose input has the declared  *)
(* type and a decompressFromUrl call whose payload is over the alphabet    *)
(* end with the BackendUnavailable error, and no backend was asked.        *)
(***************************************************************************)
C12_BackendUnavailable ==
  \A c \in Calls :
    LET call == calls[c] IN
    ( /\ ~zlib
      /\ ~streams
      /\ call.op # "none"
      /\ call.op = "compress" => ~Mismatch(call)
      /\ call.op = "decompress" => Range(call.payload) \subseteq Range(alphabet) )
    => /\ call.pc = "done"
       /\ call.outcome.kind = "error"
       /\ call.outcome.name = "BackendUnavailable"
       /\ call.backendCalls = 0
       /\ call.pending = <<>>

(* both kinds of call have met the missing backend: a compress call of a    *)
(* binary input, or a decompress call of a payload with data and filler     *)
C12_Witness ==
  /\ ~zlib
  /\ ~streams
  /\ \E c \in Calls :
       /\ calls[c].pc = "done"
       /\ calls[c].outcome.kind = "error"
       /\ calls[c].outcome.name = "BackendUnavailable"
       /\ \/ /\ calls[c].op = "compress"
             /\ calls[c].input.type = "Uint8Array"
             /\ Len(calls[c].input.value) > 0
          \/ /\ calls[c].op = "decompress"
             /\ Tilde \in Range(calls[c].payload)
             /\ Len(trimFiller(calls[c].payload)) > 0

(***************************************************************************)
(* C13.  With a backend that completes every request, every call that      *)
(* waits for the backend ends (with a result or an error).  The loops of   *)
(* base85Encode and base85Decode make a bounded number of steps: the inner *)
(* loop of the encoder emits one symbol per step, at most 8N/5 for N       *)
(* bytes, and the inner loop of the decoder pushes one byte per step, at   *)
(* most 5L/8 for L symbols, each plus one for the bits left at the end.    *)
(***************************************************************************)
C13_Termination ==
  /\ \A c \in Calls : InFlight(c) ~> (calls[c].pc = "done")
  /\ [](\A c \in Calls :
          LET call == calls[c] IN
          /\ (Done(c, "compress") /\ call.outcome.kind = "result")
             => Len(trimFiller(call.outcome.payload)) * 5
                  <= 8 * Len(gzip(call.pending)) + 4
          /\ (call.op = "decompress" /\ call.backendCalls = 1)
             => Len(call.pending) * 8 <= 5 * Len(trimFiller(call.payload)) + 7)

(* a decompress call of a payload with filler has ended after the three     *)
(* awaits of the stream backend                                             *)
C13_Witness ==
  \E c \in Calls :
    /\ ~zlib
    /\ Done(c, "decompress")
    /\ calls[c].backendCalls = 1
    /\ calls[c].delivered # <<>>
    /\ Len(trimFiller(calls[c].payload)) < Len(calls[c].payload)

(***************************************************************************)
(* C14.  The size that compressToUrl returns is the number of characters   *)
(* of the payload it returns: the data symbols and the filler characters.  *)
(***************************************************************************)
C14_SizeIsLength ==
  \A c \in Calls :
    (Done(c, "compress") /\ calls[c].outcome.kind = "result")
    => LET payload == calls[c].outcome.payload
           data == trimFiller(payload)
       IN /\ calls[c].outcome.size = Len(payload)
          /\ calls[c].outcome.size = Len(data) + (Len(payload) - Len(data))
          /\ \A i \in (Len(data) + 1)..Len(payload) : payload[i] = Tilde

(* a returned payload that ends with filler characters *)
C14_Witness ==
  \E c \in Calls :
    /\ Done(c, "compress")
    /\ calls[c].outcome.kind = "result"
    /\ calls[c].outcome.size > Len(trimFiller(calls[c].outcome.payload))
    /\ Len(trimFiller(calls[c].outcome.payload)) > 0

(***************************************************************************)
(* C15.  An option that the caller leaves out has its default.  Without    *)
(* inputType the input must be a string.  Without maxSize a payload of up  *)
(* to 2083 characters is returned and a longer one is refused, the error   *)
(* stating 2083.  Without normalizeWhitespace the text is framed as it is. *)
(* Without mimeType the frame begins with text/html: when the input type   *)
(* is string and with application/octet-stream: when it is binary, and a   *)
(* decompress call of the returned payload reports that tag.               *)
(***************************************************************************)
C15_Defaults ==
  \A c \in Calls :
    LET call == calls[c]
        typeGiven == Default(call.options.inputType, "string")
        tag == IF typeGiven = "string" THEN TextHtml ELSE ApplicationOctetStream
    IN
    /\ (Done(c, "compress") /\ call.options.inputType = <<>>)
       => IF call.input.type = "string"
          THEN call.outcome.kind = "error" => call.outcome.name # "InvalidInputType"
          ELSE call.outcome = Error("InvalidInputType",
                                    "Expected string input for inputType \"string\"")
    /\ (Done(c, "compress") /\ call.options.maxSize = <<>> /\ call.backendCalls = 1)
       => LET size == Len(base85Encode(gzip(call.pending)))
          IN IF size <= 2083
             THEN call.outcome.kind = "result"
             ELSE /\ call.outcome.kind = "error"
                  /\ call.outcome.name = "PayloadTooLarge"
                  /\ call.outcome.size = size
                  /\ call.outcome.maxSize = 2083
    /\ ( /\ call.op = "compress"
         /\ call.options.normalizeWhitespace = <<>>
         /\ typeGiven = "string"
         /\ call.backendCalls = 1 )
       => \E prefix \in {TextEncode(TagOf(call) \o <<Colon>>)} :
            call.pending = prefix \o TextEncode(call.input.value)
    /\ (call.op = "compress" /\ call.options.mimeType = <<>> /\ call.backendCalls = 1)
       => startsWith(call.pending, tag \o <<Colon>>)
    /\ ( /\ RoundTrip(c)
         /\ call.options.mimeType = <<>>
         /\ call.outcome.kind = "result" )
       => call.outcome.mimeType = tag

(* a call without options has returned a payload longer than 2048 characters *)
C15_Witness ==
  \E c \in Calls :
    /\ Done(c, "compress")
    /\ calls[c].options = NoOptions
    /\ calls[c].outcome.kind = "result"
    /\ calls[c].outcome.size > 2048

(***************************************************************************)
(* C17.  The radix codec alone is a lossless round trip: for every byte    *)
(* sequence B, base85Decode(base85Encode(B)) is B.  The code does not keep *)
(* this: a sequence of two bytes comes back with a third byte, zero.       *)
(***************************************************************************)
C17_RadixRoundTrip ==
  radix.pc \in {"decoded", "thrown"} => radix.pc = "decoded" /\ radix.decoded = radix.bytes

(* bit i of a byte sequence, counted from 1 with the most significant bit   *)
(* of the first byte first; 0 beyond the last bit                           *)
BitAt(bytes, i) ==
  IF i > 8 * Len(bytes) THEN 0
  ELSE (bytes[((i - 1) \div 8) + 1] \div (2 ^ (7 - ((i - 1) % 8)))) % 2

(* the number that bits 5k-4 .. 5k spell *)
FiveBits(bytes, k) ==
  16 * BitAt(bytes, 5 * k - 4) + 8 * BitAt(bytes, 5 * k - 3) + 4 * BitAt(bytes, 5 * k - 2)
    + 2 * BitAt(bytes, 5 * k - 1) + BitAt(bytes, 5 * k)

(***************************************************************************)
(* C19.  The data symbols of base85Encode(B), read as alphabet indices,    *)
(* spell the bits of B most significant bit first, five bits per symbol:   *)
(* symbol k is alphabet[bits 5k-4 .. 5k of B].  There is one symbol for    *)
(* every full group of five bits, and when the bits of B end with a full   *)
(* group the string ends with that symbol: no further symbol, no filler.   *)
(***************************************************************************)
C19_SymbolsSpellBits ==
  radix.pc # "start" =>
    LET bytes == radix.bytes
        data == trimFiller(radix.str)
        full == (8 * Len(bytes)) \div 5
    IN /\ Len(data) >= full
       /\ \A k \in 1..full : data[k] = alphabet[FiveBits(bytes, k) + 1]
       /\ (8 * Len(bytes)) % 5 = 0 => radix.str = data /\ Len(data) = full

(* five bytes, the last one odd, have been encoded: eight symbols, no bits left *)
C19_Witness ==
  /\ radix.pc = "encoded"
  /\ Len(radix.bytes) = 5
  /\ radix.bytes[1] = 165
  /\ radix.bytes[5] = 255
  /\ Len(radix.str) = 8

(***************************************************************************)
(* C20.  When 1 to 4 bits remain after the last byte, base85Encode emits   *)
(* exactly one more data symbol, which holds those bits followed by zero   *)
(* bits, and then exactly (4 - (N mod 4)) mod 4 filler characters, N being *)
(* the number of bytes: between 0 and 3 of them, and N mod 4 can be read   *)
(* from their number.                                                      *)
(***************************************************************************)
C20_FinalSymbolAndFiller ==
  (radix.pc # "start" /\ (8 * Len(radix.bytes)) % 5 # 0) =>
    LET bytes == radix.bytes
        N == Len(bytes)
        data == trimFiller(radix.str)
        fillers == Len(radix.str) - Len(data)
        full == (8 * N) \div 5
    IN /\ Len(data) = full + 1
       /\ data[full + 1] = alphabet[FiveBits(bytes, full + 1) + 1]
       /\ fillers = (4 - (N % 4)) % 4
       /\ fillers \in 0..3
       /\ (4 - fillers) % 4 = N % 4
       /\ \A i \in (Len(data) + 1)..Len(radix.str) : radix.str[i] = Tilde

(* three bytes have been encoded: five symbols, the last for 4 bits, one filler *)
C20_Witness ==
  /\ radix.pc = "encoded"
  /\ Len(radix.bytes) = 3
  /\ radix.bytes[3] = 255
  /\ Len(radix.str) = 6
  /\ radix.str[6] = Tilde
  /\ radix.str[5] # Tilde

(* the bytes that compressToUrl framed under the tag: the input itself, or   *)
(* the UTF-8 bytes of the text (of the normalised text, if asked for)        *)
FramedData(call) ==
  IF InputTypeOf(call) = "binary" THEN call.input.value
  ELSE TextEncode(IF Default(call.options.normalizeWhitespace, FALSE)
                  THEN normalize(call.input.value) ELSE call.input.value)

C16_EditorUrls ==
  /\ editor.last.step = "encoded" =>
       LET params == urlencodedParse(editor.search)
           outcome == compressToUrl(StringInput(editor.last.code), CodeOptions)
       IN /\ outcome.kind = "result"
          /\ editor.urlOutput = outcome.payload
          /\ searchParamsGetAll(params, ParamU) = <<outcome.payload>>
          /\ searchParamsGetAll(params, ParamEdit) = <<One>>
  /\ (editor.pc = "mounted" /\ editor.urlOutput # <<>>) =>
       LET params == urlencodedParse(shareLink(editor.urlOutput))
       IN /\ searchParamsGetAll(params, ParamU) = <<editor.urlOutput>>
          /\ searchParamsGetAll(params, ParamEdit) = <<>>

(* an encode has succeeded on a page opened with a query that already held *)
(* u and edit, and the share link is shown                                 *)
C16_Witness ==
  /\ editor.last.step = "encoded"
  /\ editor.urlOutput # <<>>
  /\ Len(urlencodedParse(editor.search)) = 2
  /\ \E e \in Encodes : editor.encodes[e].pc = "done" /\ editor.encodes[e].payload = editor.urlOutput

(***************************************************************************)
(* C21.  For every string given to base85Decode, the estimated byte count  *)
(* is at least 1: a computation that yields 0 or less is raised to 1.      *)
(***************************************************************************)
C21_EstimateAtLeastOne ==
  radix.pc \in {"read", "refused"} => radix.totalBytesEstimate >= 1

(* bit i (from 0) of the string of bits made of the low five bits of each  *)
(* character's alphabet index, most significant first; 0 past its end      *)
SymbolBitAt(str, i) ==
  IF i >= 5 * Len(str) THEN 0
  ELSE ((indexOf(alphabet, str[(i \div 5) + 1]) % 32) \div (2 ^ (4 - (i % 5)))) % 2

(* those bits regrouped in bytes, the last byte filled with zero bits *)
RegroupedBytes(str) ==
  [k \in 1..((5 * Len(str) + 7) \div 8) |->
     SymbolBitAt(str, 8 * (k - 1)) * 128 + SymbolBitAt(str, 8 * (k - 1) + 1) * 64
     + SymbolBitAt(str, 8 * (k - 1) + 2) * 32 + SymbolBitAt(str, 8 * (k - 1) + 3) * 16
     + SymbolBitAt(str, 8 * (k - 1) + 4) * 8 + SymbolBitAt(str, 8 * (k - 1) + 5) * 4
     + SymbolBitAt(str, 8 * (k - 1) + 6) * 2 + SymbolBitAt(str, 8 * (k - 1) + 7)]

(***************************************************************************)
(* C22.  For every string over the alphabet, the bytes base85Decode has    *)
(* pushed before it trims them are the five-bit values of the characters   *)
(* read (the string without its trailing filler run), put one after the    *)
(* other and cut in bytes: each character gives five bits and leaves the   *)
(* bits of the characters before it as they were.                          *)
(***************************************************************************)
C22_FiveBitsPerCharacter ==
  radix.pc = "read" => radix.emitted = RegroupedBytes(trimFiller(radix.str))

(***************************************************************************)
(* C23.  In a host with no backend every call ends with the                *)
(* BackendUnavailable error, whatever its arguments: the absence of the    *)
(* backend is seen before the input is validated or framed and before the  *)
(* payload is decoded, so it is the error reported also for an input of    *)
(* the wrong type and for a payload with a character outside the alphabet. *)
(***************************************************************************)
C23_BackendCheckedFirst ==
  \A c \in Calls :
    (~zlib /\ ~streams /\ calls[c].op # "none") =>
       /\ calls[c].pc = "done"
       /\ calls[c].outcome.kind = "error"
       /\ calls[c].outcome.name = "BackendUnavailable"

(* the positions a call may move to from each position *)
NextPositions(pc) ==
  CASE pc = "idle" -> {"awaitZlib", "awaitResponse", "done"}
    [] pc = "awaitZlib" -> {"done"}
    [] pc = "awaitResponse" -> {"awaitBlob"}
    [] pc = "awaitBlob" -> {"awaitArrayBuffer", "done"}
    [] pc = "awaitArrayBuffer" -> {"done"}
    [] pc = "done" -> {"idle", "awaitZlib", "awaitResponse", "done"}

(***************************************************************************)
(* C24.  The stages of a call run in order, each on the complete output of *)
(* the one before.  A call moves through its awaits in the order of the    *)
(* code; it returns a result only in the step that follows the last await  *)
(* of the backend, after exactly one request; what was handed to the       *)
(* backend is the validated and framed input (compress) or the decoded     *)
(* payload (decompress); and the result is made from the complete output   *)
(* of the backend: the payload is the radix encoding of the whole          *)
(* container, the data and mimeType are the unframing of the whole         *)
(* inflated frame.                                                         *)
(***************************************************************************)
C24_StagesInOrder ==
  [][\A c \in Calls :
       LET call == calls[c]
           after == calls'[c]
       IN /\ after.pc # call.pc => after.pc \in NextPositions(call.pc)
          /\ (call.pc # "done" /\ after.pc = "done" /\ after.outcome.kind = "result") =>
               /\ call.pc \in {"awaitZlib", "awaitArrayBuffer"}
               /\ call.backendCalls = 1
               /\ call.pc = "awaitArrayBuffer" =>
                    call.delivered = IF call.op = "compress" THEN gzip(call.pending)
                                     ELSE gunzip(call.pending).bytes
               /\ IF call.op = "compress"
                  THEN /\ call.pending =
                            compressPrefix(call.input, call.options, zlib, streams).fullData
                       /\ after.outcome.payload = base85Encode(gzip(call.pending))
                  ELSE /\ call.pending = base85Decode(call.payload).bytes
                       /\ gunzip(call.pending).ok
                       /\ after.outcome =
                            decompressSuffix(gunzip(call.pending).bytes, call.doptions)]_vars

(* a compress call has returned a payload and the decompress call of that  *)
(* payload has returned a result, after the stream backend delivered the   *)
(* whole inflated frame                                                    *)
C24_Witness ==
  \E c \in Calls :
    /\ ~zlib
    /\ calls[c].pc = "done"
    /\ calls[c].op = "decompress"
    /\ calls[c].fromResult
    /\ calls[c].outcome.kind = "result"
    /\ Len(calls[c].delivered) > 2
    /\ calls[c].delivered = gunzip(calls[c].pending).bytes

(***************************************************************************)
(* C25.  Every data symbol of a string returned by base85Encode (the       *)
(* first ceil(8N/5) characters, N the number of bytes) is one of the first *)
(* 32 characters of the alphabet and is not the filler character, so the   *)
(* run of filler characters that base85Decode strips from the end of the   *)
(* string is exactly what follows the data symbols.                        *)
(***************************************************************************)
C25_DataSymbolsBelow32 ==
  radix.pc \in {"encoded", "decoded", "thrown"} =>
    LET symbols == (8 * Len(radix.bytes) + 4) \div 5
    IN /\ Len(radix.str) >= symbols
       /\ \A i \in 1..symbols :
            /\ \E index \in 0..31 : radix.str[i] = alphabet[index + 1]
            /\ radix.str[i] # Tilde
       /\ \A i \in (symbols + 1)..Len(radix.str) : radix.str[i] = Tilde
       /\ trimFiller(radix.str) = SubSeq(radix.str, 1, symbols)

(* the bytes FF FF have been encoded as VVVG~~: symbols of index 31 and 16, *)
(* then two filler characters                                               *)
C25_Witness ==
  /\ radix.pc = "encoded"
  /\ radix.bytes = <<255, 255>>
  /\ radix.str = <<86, 86, 86, 71, 126, 126>>

(***************************************************************************)
(* C26.  For a number N of bytes that is a multiple of 5, base85Encode     *)
(* returns exactly 8N/5 characters, none of them the filler character,     *)
(* whatever N mod 4 is; for N = 0 that is the empty string.                *)
(***************************************************************************)
C26_MultipleOfFive ==
  (radix.pc \in {"encoded", "decoded", "thrown"} /\ Len(radix.bytes) % 5 = 0) =>
    /\ Len(radix.str) = (8 * Len(radix.bytes)) \div 5
    /\ \A i \in 1..Len(radix.str) : radix.str[i] # Tilde
    /\ radix.bytes = <<>> => radix.str = <<>>

(* 5, 10 and 15 bytes (N mod 4 = 1, 2 and 3) are among the encoded inputs; *)
(* here 10 bytes gave 16 characters                                        *)
C26_Witness ==
  /\ radix.pc = "encoded"
  /\ Len(radix.bytes) = 10
  /\ Len(radix.str) = 16

(* the part of a tag before its first colon (the whole tag if it has none) *)
BeforeColon(tag) ==
  IF ColonFree(tag) THEN tag ELSE SubSeq(tag, 1, indexOf(tag, Colon))

(* the part of a tag after its first colon, followed by a colon *)
AfterColon(tag) ==
  IF ColonFree(tag) THEN <<>>
  ELSE SubSeq(tag, indexOf(tag, Colon) + 2, Len(tag)) \o <<Colon>>

(***************************************************************************)
(* C27.  compressToUrl accepts every mimeType: a call whose input has the  *)
(* declared type, in a host with a backend, fails only with                *)
(* PayloadTooLarge.  decompressFromUrl of the returned payload reports as  *)
(* mimeType the part of the given mimeType before its first colon: that is *)
(* the given mimeType exactly when it holds no colon, and otherwise the    *)
(* rest of the mimeType and a colon come at the front of the data.         *)
(***************************************************************************)
C27_MimeTypeUnvalidated ==
  \A c \in Calls :
    LET call == calls[c]
        T == TagOf(call)
        bytes == TextEncode(AfterColon(T)) \o FramedData(call)
    IN /\ (Done(c, "compress") /\ ~Mismatch(call) /\ (zlib \/ streams)) =>
            \/ call.outcome.kind = "result"
            \/ call.outcome.name = "PayloadTooLarge"
       /\ RoundTrip(c) =>
            /\ call.outcome.kind = "result"
            /\ call.outcome.mimeType = BeforeColon(T)
            /\ call.outcome.mimeType = T <=> ColonFree(T)
            /\ call.outcome.data.value =
                 IF call.outcome.data.type = "string" THEN TextDecode(bytes) ELSE bytes

(* every encode that was scheduled has run to its end *)
EditorAtRest ==
  /\ editor.pc = "mounted"
  /\ editor.scheduled >= 1
  /\ \A e \in Encodes : editor.encodes[e].pc \in {"unused", "done"}

(***************************************************************************)
(* C28.  In the editor, when every debounce timer has fired and every      *)
(* compress call has completed, urlOutput and the u parameter of the       *)
(* browser URL are the payload of the current htmlInput (for an htmlInput  *)
(* that compressToUrl accepts): the result of the encode of an older input *)
(* never replaces the result of the encode of a newer one.                 *)
(***************************************************************************)
C28_LatestInputWins ==
  EditorAtRest =>
    LET outcome == compressToUrl(StringInput(editor.htmlInput), CodeOptions)
    IN outcome.kind = "result" =>
         /\ editor.urlOutput = outcome.payload
         /\ searchParamsGetAll(urlencodedParse(editor.search), ParamU) = <<outcome.payload>>

(* the cache holds, for each of its codes, one entry, with the payload that *)
(* compressToUrl returns for that code                                      *)
CacheSound(cache) ==
  /\ \A entry \in cache :
       LET outcome == compressToUrl(StringInput(entry.code), CodeOptions)
       IN outcome.kind = "result" /\ outcome.payload = entry.payload
  /\ \A entry \in cache, other \in cache : entry.code = other.code => entry = other

(***************************************************************************)
(* C29.  The cache of compressCode is sound at every moment: each entry    *)
(* holds the payload compressToUrl returns for its code.  A call for a     *)
(* code that the cache holds gives the cached payload and never waits for  *)
(* compressToUrl; the cache changes only in the step in which a            *)
(* compressToUrl call succeeds, and then by the entry of that call alone;  *)
(* a call that fails leaves the cache as it was; calls that missed for the *)
(* same code write the same entry.                                         *)
(***************************************************************************)
C29_CacheInvariant ==
  /\ [](CacheSound(editor.encodingCache))
  /\ [][\A e \in Encodes :
          LET before == editor.encodes[e]
              after == editor'.encodes[e]
              hit == {entry \in editor.encodingCache : entry.code = before.code}
          IN /\ (before.pc = "timer" /\ after.pc # "timer" /\ hit # {}) =>
                  /\ after.pc = "done"
                  /\ \A entry \in hit : after.payload = entry.payload
                  /\ editor'.encodingCache = editor.encodingCache
             /\ (before.pc = "timer" /\ after.pc # "timer" /\ hit = {}) =>
                  /\ after.pc = "compressing"
                  /\ editor'.encodingCache = editor.encodingCache
             /\ (before.pc = "compressing" /\ after.pc = "done" /\ after.message # "") =>
                  editor'.encodingCache = editor.encodingCache
             /\ (before.pc = "compressing" /\ after.pc = "done" /\ after.message = "") =>
                  editor'.encodingCache =
                    {entry \in editor.encodingCache : entry.code # before.code}
                      \cup {[code |-> before.code, payload |-> after.payload]}
             /\ (\A d \in Encodes : editor.encodes[d].pc # "compressing") =>
                  editor'.encodingCache = editor.encodingCache]_vars

(* the cache holds an entry, one encode has failed and left it so, and two  *)
(* encodes of the same code have ended with the same payload                *)
C29_Witness ==
  /\ editor.encodingCache # {}
  /\ \E e \in Encodes : editor.encodes[e].pc = "done" /\ editor.encodes[e].message # ""
  /\ \E d \in Encodes, e \in Encodes :
       /\ d < e
       /\ editor.encodes[d].pc = "done"
       /\ editor.encodes[e].pc = "done"
       /\ editor.encodes[d].code = editor.encodes[e].code
       /\ editor.encodes[d].payload # <<>>
       /\ editor.encodes[d].payload = editor.encodes[e].payload

(***************************************************************************)
(* C30.  For one function returned by debounce(func, wait): a call never   *)
(* runs func in its own step; after a call exactly one timer is pending,   *)
(* that of this call, the one left by the call before being cancelled;     *)
(* every run of func comes right after the last call of a burst, wait      *)
(* after it and with its arguments, and once only; two calls with no run   *)
(* between them are at most wait apart, so calls less than wait apart are  *)
(* one burst; and once wait has passed since the last call, func has run.  *)
(***************************************************************************)
C30_Debounce ==
  /\ [](LET log == debounced.log
        IN /\ Cardinality(debounced.timers) <= 1
           /\ \A k \in 1..Len(log) :
                /\ log[k].kind = "run" =>
                     /\ k > 1
                     /\ log[k - 1].kind = "call"
                     /\ log[k].args = log[k - 1].args
                     /\ log[k].at = log[k - 1].at + DebounceWait
                /\ (log[k].kind = "call" /\ k < Len(log) /\ log[k + 1].kind = "call") =>
                     log[k + 1].at - log[k].at <= DebounceWait
                /\ (log[k].kind = "call" /\ k = Len(log)) =>
                     /\ debounced.now <= log[k].at + DebounceWait
                     /\ debounced.timers =
                          {[id |-> debounced.timeout[1], due |-> log[k].at + DebounceWait,
                            args |-> log[k].args]})
  /\ [][LET added == (Len(debounced.log) + 1)..Len(debounced'.log)
        IN (\E k \in added : debounced'.log[k].kind = "call") =>
             (\A k \in added : debounced'.log[k].kind # "run")]_vars

(* a burst of three calls one tick apart, then one run of func, wait after  *)
(* the third call and with its argument, which differs from the others      *)
C30_Witness ==
  /\ Len(debounced.log) = 4
  /\ \A k \in 1..3 : debounced.log[k] = [kind |-> "call", at |-> k, args |-> IF k = 3 THEN "y" ELSE "x"]
  /\ debounced.log[4] = [kind |-> "run", at |-> 3 + DebounceWait, args |-> "y"]
  /\ debounced.now = MaxTime
====
